---- MODULE Spec2Model ----
(***************************************************************************)
(* Live transcription sessions of APD-Listener-Tool.                       *)
(*                                                                         *)
(* Two implementations of a live session exist in the repository:          *)
(*   "handler"  : LiveTranscriptionHandler.handle_connection               *)
(*                (backend/websocket_handler.py), sliding PCM window with  *)
(*                overlap, control messages keyed by "type";               *)
(*   "endpoint" : websocket_live_transcription (backend/main.py), growing  *)
(*                session file, control messages keyed by "action".        *)
(* A session is served by one of them.  Each coroutine is modelled by its  *)
(* position pc[s]; an await or a blocking external call is a position.     *)
(*                                                                         *)
(* Units.  Compressed (WebM) sizes are counted in units of 10 000 bytes,   *)
(* decoded PCM in units of 0.2 s (6 400 bytes at 16 kHz, mono, 16 bit),    *)
(* and the event-loop clock in units of 2.5 s.   A PCM unit is the pair    *)
(* <<session, frame id>> of the frame it was decoded from.  A transcript   *)
(* is represented by the audio it is the transcript of.                    *)
(***************************************************************************)
EXTENDS Integers, Sequences, FiniteSets, TLC

\* ---------------------------------------------------------------- bounds
\* Client events of a lone session: messages sent and pauses of 2.5 s.
MaxMsgs == 4
\* Client events of two concurrent sessions, in all.
MaxPairMsgs == 2
\* HTTP requests (audio uploads, text submissions, queries) served one after
\* another.
MaxRequests == 2
\* Instructions the extractor returns for one transcript.
MaxInstructions == 2
\* Steps of one instruction.
MaxSteps == 2
\* Instructions the extractor finds for a Celery task.
MaxList == 5

\* ------------------------------------------------------ program constants
\* self.min_webm_bytes_to_decode = 20_000            (units of 10 000 bytes)
min_webm_bytes_to_decode == 2
\* self.force_decode_timeout = 2.5                         (units of 2.5 s)
force_decode_timeout == 1
\* self.buffer_size_sec = 2.0, chunk_duration: float = 2.0 (units of 0.2 s)
default_buffer_size_sec == 10
\* self.min_audio_sec = 1.0                                (units of 0.2 s)
min_audio_sec == 5
\* self.overlap_sec = 0.2                                  (units of 0.2 s)
overlap_sec == 1
\* ThreadPoolExecutor(max_workers=8), and retry_kwargs={"max_retries": 3}
max_workers == 8
max_retries == 3

\* Values of AudioStreamProcessor's chunk_duration: 0.2 s and the default
\* 2.0 s.
ChunkDurations == {overlap_sec, default_buffer_size_sec}

Sessions == {"A", "B"}
Impls == {"handler", "endpoint"}

\* Audio frames a client sends, as <<compressed size, decoded duration>>:
\* 10 kB decoding to 0.6 s, 20 kB decoding to 1.2 s.
FrameKinds == {<<1, 3>>, <<2, 6>>}

None == "None"
\* No message yet, and a binary message.
NoMsg == [none |-> TRUE]
AudioMsg == [bytes |-> TRUE]
BadJson == [json |-> FALSE]
Control(t, a) == [json |-> TRUE, type |-> t, action |-> a]
\* Text frames a client sends: the test client's {"type": "config"} and
\* {"type": "stop"}, the endpoint's {"action": ...}, and text that is not JSON.
ControlMsgs ==
    { BadJson, Control("config", None), Control("stop", None),
      Control(None, "stop"), Control(None, "save"), Control(None, "discard") }

VARIABLES
    client,            \* websocket_handler.client is not None
    buffer_size_sec,   \* handler.buffer_size_sec
    now,               \* asyncio.get_event_loop().time()
    budget,            \* client events (messages, pauses) still to come
    nrecv,             \* messages received on the session so far
    last_msg,          \* the message the session received last
    impl,              \* which implementation serves the session
    pc,                \* position of the session's coroutine
    conn,              \* the client side of the connection is open
    local,             \* handle_connection's local variables
    tmp_files,         \* the temp directory: path -> content
    sent,              \* events delivered to the client
    whisper_calls,     \* audio submitted to the transcription backend
    in_flight,         \* external calls started and not yet returned
    result,            \* outcome of the session's last external call
    audio_jobs,        \* rows of the audio_jobs table
    instructions,      \* rows of the instructions table
    audio_chunks,      \* rows of the audio_chunks table
    nreq,              \* batch and query requests received so far
    run,               \* the batch request being served, or served last
    scan,              \* rows as the last query's table scans produced them
    reply,             \* the last HTTP response
    task,              \* the process_audio tasks of a Celery worker process
    pool_queue,        \* work items submitted to POOL and not yet started
    pool_running,      \* work items a thread of POOL is running
    faults,            \* the backends that may fail
    api,               \* the analyze-audio requests of src/main.py
    audio_dir          \* AUDIO_DIR of src/main.py: file name -> content

vars ==
    << client, buffer_size_sec, now, budget, nrecv, last_msg, impl, pc, conn, local, tmp_files,
       sent, whisper_calls, in_flight, result, audio_jobs, instructions,
       audio_chunks, nreq, run, scan, reply, task, pool_queue, pool_running,
       faults, api, audio_dir >>

\* State of the live sessions, and state of the HTTP routes.
liveVars ==
    << client, buffer_size_sec, now, budget, nrecv, last_msg, impl, pc, conn,
       local, sent, whisper_calls, in_flight, result >>
httpVars == << instructions, audio_chunks, nreq, run, scan, reply >>
\* State of the Celery worker process, and state of the app of src/main.py.
celeryVars == << task, pool_queue, pool_running, faults >>
apiVars == << api, audio_dir >>
workerVars == << celeryVars, apiVars >>

\* ---------------------------------------------------------------- helpers
Frame(s, id, kind) == [s |-> s, id |-> id, bytes |-> kind[1], pcm |-> kind[2]]

RECURSIVE Bytes(_)
\* len(webm_buffer)
Bytes(buf) ==
    IF buf = <<>> THEN 0 ELSE Head(buf).bytes + Bytes(Tail(buf))

PcmOf(frame) == [i \in 1..frame.pcm |-> <<frame.s, frame.id>>]

RECURSIVE Decode(_)
\* AudioSegment.from_file(...).raw_data of the concatenated frames
Decode(buf) ==
    IF buf = <<>> THEN <<>> ELSE PcmOf(Head(buf)) \o Decode(Tail(buf))

\* The text the transcription backend returns for an audio sample.
Transcript(audio) == audio

RECURSIVE Join(_)
\* " ".join(transcription_history).strip()
Join(history) ==
    IF history = <<>> THEN <<>> ELSE Head(history) \o Join(Tail(history))

LastN(seq, n) == SubSeq(seq, Len(seq) - n + 1, Len(seq))

\* pcm_duration = len(pcm_buffer) / (sample_rate * channels * sample_width)
pcm_duration(pcm) == Len(pcm)

\* int(self.overlap_sec * self.sample_rate * self.channels * self.sample_width)
overlap_bytes == overlap_sec

\* The byte threshold alone.
should_decode_bytes_only(webm, time_since_decode) ==
    Bytes(webm) >= min_webm_bytes_to_decode

should_decode(webm, time_since_decode) ==
    \/ Bytes(webm) >= min_webm_bytes_to_decode
    \/ (Bytes(webm) > 0 /\ time_since_decode >= force_decode_timeout)

\* Nothing is dropped after a transcription cycle.
KeepAll(pcm) == pcm

\* "Keep overlap": the PCM buffer after a transcription cycle.
KeepOverlap(pcm) ==
    IF Len(pcm) > overlap_bytes THEN LastN(pcm, overlap_bytes) ELSE <<>>

\* The early returns of _transcribe_pcm: no call is made for them.
TooShort(pcm) == pcm = <<>> \/ pcm_duration(pcm) < min_audio_sec

Locals0(t) ==
    [ pcm_buffer |-> <<>>, webm_buffer |-> <<>>, transcription_history |-> <<>>,
      chunk_id |-> 0, last_decode_time |-> t, current_time |-> t ]

\* session_id = uuid.uuid4().hex[:8], taken to be unique per connection
session_id(s) == s

\* One file name for every session.
temp_filepath_shared(s) == <<"live_session", "">>

\* os.path.join(tempfile.gettempdir(), f"live_session_{session_id}.webm")
temp_filepath(s) == <<"live_session", session_id(s)>>

\* Blocking calls made on the event-loop thread: nothing else runs meanwhile.
Blocking == {"transcribing", "final_transcribing", "saving"}
LoopFree == \A t \in Sessions : pc[t] \notin Blocking

\* The decode is left running and the next message is taken meanwhile.
ReceiveWhileDecoding(s) == pc[s] \in {"recv", "decoding"}

\* The coroutine takes the next message only at `await websocket.receive()`,
\* after the awaits and calls of the previous iteration have returned.
ReadyToReceive(s) == pc[s] = "recv"

\* No batch request yet, no query yet, no response yet.
NoRun ==
    [ pc |-> "idle", kind |-> None, job_id |-> None, tmp_path |-> None,
      transcription |-> None, shape |-> None, data |-> <<>>, idx |-> 0, step_idx |-> 0,
      new_instructions |-> <<>>, new_chunks |-> <<>>, tts_failures |-> 0 ]
NoScan == [instructions |-> <<>>, audio_chunks |-> <<>>]
NoReply == [op |-> None, status |-> 0]

\* ------------------------------------------------------------------- Init
\* The live sessions before any connection.
InitLive(n, keys) ==
    /\ budget = n
    /\ client \in keys
    /\ buffer_size_sec \in ChunkDurations
    /\ now = 0
    /\ nrecv = [s \in Sessions |-> 0]
    /\ last_msg = [s \in Sessions |-> NoMsg]
    /\ impl = [s \in Sessions |-> None]
    /\ pc = [s \in Sessions |-> "idle"]
    /\ conn = [s \in Sessions |-> FALSE]
    /\ local = [s \in Sessions |-> Locals0(0)]
    /\ tmp_files = << >>
    /\ sent = [s \in Sessions |-> <<>>]
    /\ whisper_calls = [s \in Sessions |-> <<>>]
    /\ in_flight = [s \in Sessions |-> 0]
    /\ result = [s \in Sessions |-> None]

\* The HTTP routes before any request.
InitHttp ==
    /\ nreq = 0
    /\ run = NoRun
    /\ scan = NoScan
    /\ reply = NoReply

\* init_db() on a new database: the three tables, empty.
InitStore ==
    /\ audio_jobs = <<>>
    /\ instructions = <<>>
    /\ audio_chunks = <<>>

\* The process_audio tasks and the requests to src/main.py.
Tasks == {"A", "B"}
Callers == {"A", "B"}
FaultKinds == {"transcription", "extraction", "tts"}

NoTask ==
    [ pc |-> "none", retries |-> 0, temp_path |-> None, transcription |-> None,
      instruction_list |-> <<>>, tts_results |-> <<>>, result |-> None ]
NoCall ==
    [ pc |-> "idle", audio_path |-> None, transcription_text |-> None,
      instructions |-> <<>>, idx |-> 0, timeline |-> <<>>,
      response |-> [status |-> 0] ]

\* A Celery worker process to which the tasks T were sent, with backends of
\* which those in F may fail.
InitCelery(T, F) ==
    /\ task = [t \in Tasks |-> IF t \in T THEN [NoTask EXCEPT !.pc = "queued"]
                                          ELSE NoTask]
    /\ pool_queue = <<>>
    /\ pool_running = {}
    /\ faults = F

\* The app of src/main.py before any request.
InitApi ==
    /\ api = [c \in Callers |-> NoCall]
    /\ audio_dir = << >>

InitWith(n, keys) ==
    InitLive(n, keys) /\ InitHttp /\ InitStore /\ InitCelery({}, {}) /\ InitApi

Init == InitWith(MaxMsgs, BOOLEAN)
\* Two sessions on a server whose API key is configured.
InitPair == InitWith(MaxPairMsgs, {TRUE})

\* ---------------------------------------------------------- environment
\* The client sends one more message on session s.
Take(s, m) ==
    /\ budget > 0
    /\ budget' = budget - 1
    /\ nrecv' = [nrecv EXCEPT ![s] = @ + 1]
    /\ last_msg' = [last_msg EXCEPT ![s] = m]

\* The clients pause and the event loop's clock advances.
Tick ==
    /\ budget > 0
    /\ budget' = budget - 1
    /\ now' = now + 1
    /\ UNCHANGED << client, buffer_size_sec, nrecv, last_msg, impl, pc, conn,
                    local, tmp_files, sent, whisper_calls, in_flight, result,
                    audio_jobs, httpVars,
                    workerVars >>

ClientDisconnect(s) ==
    /\ conn[s]
    /\ pc[s] # "closed"
    /\ conn' = [conn EXCEPT ![s] = FALSE]
    /\ UNCHANGED << client, buffer_size_sec, now, budget, nrecv, last_msg, impl, pc, local,
                    tmp_files, sent, whisper_calls, in_flight, result,
                    audio_jobs, httpVars,
                    workerVars >>

\* ------------------------------------------------------------ file system
Exists(fs, p) == p \in DOMAIN fs
WriteFile(fs, p, data) ==
    [q \in DOMAIN fs \cup {p} |-> IF q = p THEN data ELSE fs[q]]
\* The file is opened for writing, not for appending.
OverwriteFile(fs, p, frame) == WriteFile(fs, p, <<frame>>)

\* open(path, 'ab').write(frame)
AppendFile(fs, p, frame) ==
    WriteFile(fs, p, (IF Exists(fs, p) THEN fs[p] ELSE <<>>) \o <<frame>>)
\* os.unlink(path) guarded by os.path.exists(path)
Unlink(fs, p) == [q \in DOMAIN fs \ {p} |-> fs[q]]

\* ----------------------------------------------------------------- events
ErrorNoKey == [type |-> "error", code |-> "NO_API_KEY"]
ConfigAck == [type |-> "config_ack", status |-> "ready"]
\* The final event carries the number of the cycle before.
TranscriptionEvPreviousChunk(text, chunk, final) ==
    [type |-> "transcription", text |-> text,
     chunk |-> IF final /\ chunk > 0 THEN chunk - 1 ELSE chunk,
     is_final |-> final]

TranscriptionEv(text, chunk, final) ==
    [type |-> "transcription", text |-> text, chunk |-> chunk, is_final |-> final]
\* The aggregate has the text of the last fragment only.
CompleteEvLastOnly(history) ==
    [type |-> "complete",
     full_text |-> IF history = <<>> THEN <<>> ELSE history[Len(history)],
     total_chunks |-> Len(history)]

CompleteEv(history) ==
    [type |-> "complete", full_text |-> Join(history), total_chunks |-> Len(history)]

\* --------------------------------------------------------------- connect
\* websocket.accept() and the set-up before the receive loop, of either
\* implementation.  "A" names the connection accepted first.
Connect(s, i) ==
    /\ LoopFree
    /\ pc[s] = "idle"
    /\ s = "B" => pc["A"] # "idle"
    /\ impl' = [impl EXCEPT ![s] = i]
    /\ IF i = "handler"
       THEN /\ IF client
               THEN /\ pc' = [pc EXCEPT ![s] = "recv"]
                    /\ conn' = [conn EXCEPT ![s] = TRUE]
                    /\ UNCHANGED sent
               ELSE /\ pc' = [pc EXCEPT ![s] = "closed"]
                    /\ conn' = [conn EXCEPT ![s] = TRUE]
                    /\ sent' = [sent EXCEPT ![s] = Append(@, ErrorNoKey)]
            /\ local' = [local EXCEPT ![s] = Locals0(now)]
            /\ UNCHANGED tmp_files
       ELSE /\ pc' = [pc EXCEPT ![s] = "recv"]
            /\ conn' = [conn EXCEPT ![s] = TRUE]
            /\ tmp_files' = WriteFile(tmp_files, temp_filepath(s), <<>>)
            /\ UNCHANGED << local, sent >>
    /\ UNCHANGED << client, buffer_size_sec, now, budget, nrecv, last_msg, whisper_calls,
                    in_flight, result, audio_jobs, httpVars,
                    workerVars >>

\* ------------------------------------------- handler: audio frame cycle
\* "Check if ready to transcribe", with the handler's locals loc and nfl
\* calls of the session in flight.
CheckTranscribe(s, loc, nfl) ==
    IF pcm_duration(loc.pcm_buffer) >= buffer_size_sec
    THEN IF TooShort(loc.pcm_buffer)
         THEN /\ local' = [local EXCEPT ![s] =
                     [loc EXCEPT !.pcm_buffer = KeepOverlap(@),
                                 !.chunk_id = @ + 1]]
              /\ pc' = [pc EXCEPT ![s] = "recv"]
              /\ in_flight' = [in_flight EXCEPT ![s] = nfl]
              /\ UNCHANGED whisper_calls
         ELSE /\ local' = [local EXCEPT ![s] = loc]
              /\ pc' = [pc EXCEPT ![s] = "transcribing"]
              /\ in_flight' = [in_flight EXCEPT ![s] = nfl + 1]
              /\ whisper_calls' =
                     [whisper_calls EXCEPT ![s] = Append(@, loc.pcm_buffer)]
    ELSE /\ local' = [local EXCEPT ![s] = loc]
         /\ pc' = [pc EXCEPT ![s] = "recv"]
         /\ in_flight' = [in_flight EXCEPT ![s] = nfl]
         /\ UNCHANGED whisper_calls

\* A binary message: appended to webm_buffer, then either the decode is
\* started (await asyncio.to_thread) or the transcription check is made.
RecvAudio(s, kind) ==
    /\ LoopFree
    /\ impl[s] = "handler"
    /\ ReadyToReceive(s)
    /\ conn[s]
    /\ Take(s, AudioMsg)
    /\ LET loc == [local[s] EXCEPT
                      !.webm_buffer = Append(@, Frame(s, nrecv[s] + 1, kind)),
                      !.current_time = now]
       IN  IF should_decode(loc.webm_buffer, now - local[s].last_decode_time)
           THEN /\ local' = [local EXCEPT ![s] = loc]
                /\ pc' = [pc EXCEPT ![s] = "decoding"]
                /\ in_flight' = [in_flight EXCEPT ![s] = @ + 1]
                /\ UNCHANGED whisper_calls
           ELSE CheckTranscribe(s, loc, in_flight[s])
    /\ UNCHANGED << client, buffer_size_sec, now, impl, conn, tmp_files, sent,
                    result, audio_jobs, httpVars,
                    workerVars >>

\* The decode raised and the exception went on to the outer handler.
DecodeErrorPropagates(s, nfl) ==
    /\ pc' = [pc EXCEPT ![s] = "closed"]
    /\ local' = [local EXCEPT ![s] = Locals0(0)]
    /\ in_flight' = [in_flight EXCEPT ![s] = nfl]
    /\ UNCHANGED whisper_calls

\* `except Exception as e: print(...)`: the decode raised, the locals are as
\* they were, and the handler goes on to the transcription check.
DecodeError(s, nfl) == CheckTranscribe(s, local[s], nfl)

\* _convert_webm_to_pcm returns or raises; the coroutine resumes.
DecodeDone(s, ok) ==
    /\ LoopFree
    /\ impl[s] = "handler"
    /\ pc[s] = "decoding"
    /\ result' = [result EXCEPT ![s] = IF ok THEN "ok" ELSE "error"]
    /\ IF ok
       THEN CheckTranscribe(s,
                [local[s] EXCEPT
                    !.pcm_buffer = @ \o Decode(local[s].webm_buffer),
                    !.webm_buffer = <<>>,
                    !.last_decode_time = local[s].current_time],
                in_flight[s] - 1)
       ELSE DecodeError(s, in_flight[s] - 1)
    /\ UNCHANGED << client, buffer_size_sec, now, budget, nrecv, last_msg, impl, conn, tmp_files,
                    sent, audio_jobs, httpVars,
                    workerVars >>

\* client.audio.transcriptions.create returns text, returns nothing, or
\* raises (caught in _transcribe_pcm, which then returns None).
TranscribeDone(s, outcome) ==
    /\ impl[s] = "handler"
    /\ pc[s] = "transcribing"
    /\ in_flight' = [in_flight EXCEPT ![s] = @ - 1]
    /\ result' = [result EXCEPT ![s] = outcome]
    /\ LET loc == local[s]
           text == Transcript(loc.pcm_buffer)
           trimmed == [loc EXCEPT !.pcm_buffer = KeepOverlap(@),
                                  !.chunk_id = @ + 1]
       IN  IF outcome = "ok"
           THEN IF conn[s]
                THEN /\ sent' = [sent EXCEPT ![s] = Append(@,
                            TranscriptionEv(text, loc.chunk_id, FALSE))]
                     /\ local' = [local EXCEPT ![s] =
                            [trimmed EXCEPT !.transcription_history =
                                                Append(@, text)]]
                     /\ pc' = [pc EXCEPT ![s] = "recv"]
                ELSE \* send_json raises on the closed connection
                     /\ pc' = [pc EXCEPT ![s] = "closed"]
                     /\ local' = [local EXCEPT ![s] = Locals0(0)]
                     /\ UNCHANGED sent
           ELSE /\ local' = [local EXCEPT ![s] = trimmed]
                /\ pc' = [pc EXCEPT ![s] = "recv"]
                /\ UNCHANGED sent
    /\ UNCHANGED << client, buffer_size_sec, now, budget, nrecv, last_msg, impl, conn, tmp_files,
                    whisper_calls, audio_jobs, httpVars,
                    workerVars >>

\* --------------------------------------------- handler: control messages
\* The message is dropped and the session's buffers with it.
HandlerIgnoreResets(s, m) ==
    /\ LoopFree
    /\ impl[s] = "handler"
    /\ ReadyToReceive(s)
    /\ conn[s]
    /\ IF m = BadJson THEN TRUE ELSE m.type \notin {"config", "stop"}
    /\ Take(s, m)
    /\ local' = [local EXCEPT ![s] = Locals0(now)]
    /\ UNCHANGED << client, buffer_size_sec, now, impl, pc, conn,
                    tmp_files, sent, whisper_calls, in_flight, result,
                    audio_jobs, httpVars,
                    workerVars >>

\* A text message that is not JSON, or whose "type" is neither "config" nor
\* "stop": `continue`.
HandlerIgnore(s, m) ==
    /\ LoopFree
    /\ impl[s] = "handler"
    /\ ReadyToReceive(s)
    /\ conn[s]
    /\ IF m = BadJson THEN TRUE ELSE m.type \notin {"config", "stop"}
    /\ Take(s, m)
    /\ UNCHANGED << client, buffer_size_sec, now, impl, pc, conn, local,
                    tmp_files, sent, whisper_calls, in_flight, result,
                    audio_jobs, httpVars,
                    workerVars >>

HandlerConfig(s) ==
    /\ LoopFree
    /\ impl[s] = "handler"
    /\ ReadyToReceive(s)
    /\ conn[s]
    /\ Take(s, Control("config", None))
    /\ sent' = [sent EXCEPT ![s] = Append(@, ConfigAck)]
    /\ UNCHANGED << client, buffer_size_sec, now, impl, pc, conn, local,
                    tmp_files, whisper_calls, in_flight, result, audio_jobs, httpVars,
                    workerVars >>

\* The events are sent a second time before the loop is left.
FinishRepeats(s, evs) ==
    /\ sent' = [sent EXCEPT ![s] = IF conn[s] THEN @ \o evs \o evs ELSE @]
    /\ pc' = [pc EXCEPT ![s] = "closed"]
    /\ local' = [local EXCEPT ![s] = Locals0(0)]

\* The events evs are sent (the first send raises on a closed connection),
\* the receive loop is left and handle_connection returns.
Finish(s, evs) ==
    /\ sent' = [sent EXCEPT ![s] = IF conn[s] THEN @ \o evs ELSE @]
    /\ pc' = [pc EXCEPT ![s] = "closed"]
    /\ local' = [local EXCEPT ![s] = Locals0(0)]

\* "Transcribe final buffer" and the aggregate, with the locals loc.
FinalTranscribe(s, loc, nfl) ==
    IF loc.pcm_buffer # <<>> /\ ~TooShort(loc.pcm_buffer)
    THEN /\ pc' = [pc EXCEPT ![s] = "final_transcribing"]
         /\ local' = [local EXCEPT ![s] = loc]
         /\ in_flight' = [in_flight EXCEPT ![s] = nfl + 1]
         /\ whisper_calls' =
                [whisper_calls EXCEPT ![s] = Append(@, loc.pcm_buffer)]
         /\ UNCHANGED sent
    ELSE /\ Finish(s, << CompleteEv(loc.transcription_history) >>)
         /\ in_flight' = [in_flight EXCEPT ![s] = nfl]
         /\ UNCHANGED whisper_calls

HandlerStop(s) ==
    /\ LoopFree
    /\ impl[s] = "handler"
    /\ ReadyToReceive(s)
    /\ conn[s]
    /\ Take(s, Control("stop", None))
    /\ IF local[s].webm_buffer # <<>>
       THEN /\ pc' = [pc EXCEPT ![s] = "final_decoding"]
            /\ in_flight' = [in_flight EXCEPT ![s] = @ + 1]
            /\ UNCHANGED << local, sent, whisper_calls >>
       ELSE FinalTranscribe(s, local[s], in_flight[s])
    /\ UNCHANGED << client, buffer_size_sec, now, impl, conn, tmp_files,
                    result, audio_jobs, httpVars,
                    workerVars >>

FinalDecodeDone(s, ok) ==
    /\ LoopFree
    /\ impl[s] = "handler"
    /\ pc[s] = "final_decoding"
    /\ result' = [result EXCEPT ![s] = IF ok THEN "ok" ELSE "error"]
    /\ LET loc == IF ok
                  THEN [local[s] EXCEPT
                           !.pcm_buffer = @ \o Decode(local[s].webm_buffer)]
                  ELSE local[s]
       IN  FinalTranscribe(s, loc, in_flight[s] - 1)
    /\ UNCHANGED << client, buffer_size_sec, now, budget, nrecv, last_msg,
                    impl, conn, tmp_files, audio_jobs, httpVars,
                    workerVars >>

FinalTranscribeDone(s, outcome) ==
    /\ impl[s] = "handler"
    /\ pc[s] = "final_transcribing"
    /\ in_flight' = [in_flight EXCEPT ![s] = @ - 1]
    /\ result' = [result EXCEPT ![s] = outcome]
    /\ LET loc == local[s]
           final_text == Transcript(loc.pcm_buffer)
       IN  IF outcome = "ok"
           THEN Finish(s, << TranscriptionEv(final_text, loc.chunk_id, TRUE),
                             CompleteEv(Append(loc.transcription_history,
                                               final_text)) >>)
           ELSE Finish(s, << CompleteEv(loc.transcription_history) >>)
    /\ UNCHANGED << client, buffer_size_sec, now, budget, nrecv, last_msg,
                    impl, conn, tmp_files, whisper_calls, audio_jobs, httpVars,
                    workerVars >>

\* ------------------------------------------- endpoint: growing session file
UpdateEv(text) ==
    [type |-> "transcription_update", text |-> text, is_full_text |-> TRUE]
CompletedEv(s, final_text) ==
    [ type |-> "completed", job_id |-> <<"job", session_id(s)>>,
      transcription |-> final_text, instruction_count |-> 0,
      instructions |-> <<>> ]

\* The loop is left and the session file stays in the temp directory.
EpCloseKeepsFile(s, evs) ==
    /\ sent' = [sent EXCEPT ![s] = IF conn[s] THEN @ \o evs ELSE @]
    /\ pc' = [pc EXCEPT ![s] = "closed"]
    /\ UNCHANGED tmp_files

\* The events reach the client whether or not it is still connected.
EpCloseSendsAnyway(s, evs) ==
    /\ sent' = [sent EXCEPT ![s] = @ \o evs]
    /\ pc' = [pc EXCEPT ![s] = "closed"]
    /\ tmp_files' = Unlink(tmp_files, temp_filepath(s))

\* The loop is left (break or exception); `finally` unlinks the session file.
EpClose(s, evs) ==
    /\ sent' = [sent EXCEPT ![s] = IF conn[s] THEN @ \o evs ELSE @]
    /\ pc' = [pc EXCEPT ![s] = "closed"]
    /\ tmp_files' = Unlink(tmp_files, temp_filepath(s))

\* A binary message: appended to the session file, and the whole file is
\* sent to the transcription backend by a blocking call.
EpRecvBytes(s, kind) ==
    /\ LoopFree
    /\ impl[s] = "endpoint"
    /\ ReadyToReceive(s)
    /\ conn[s]
    /\ Take(s, AudioMsg)
    /\ LET fs == AppendFile(tmp_files, temp_filepath(s),
                            Frame(s, nrecv[s] + 1, kind))
       IN  /\ tmp_files' = fs
           /\ whisper_calls' =
                  [whisper_calls EXCEPT ![s] = Append(@, fs[temp_filepath(s)])]
    /\ pc' = [pc EXCEPT ![s] = "transcribing"]
    /\ in_flight' = [in_flight EXCEPT ![s] = @ + 1]
    /\ UNCHANGED << client, buffer_size_sec, now, impl, conn, local, sent,
                    result, audio_jobs, httpVars,
                    workerVars >>

\* The call returns text, returns nothing, or raises (`except: pass`).
EpTranscribeDone(s, outcome) ==
    /\ impl[s] = "endpoint"
    /\ pc[s] = "transcribing"
    /\ in_flight' = [in_flight EXCEPT ![s] = @ - 1]
    /\ result' = [result EXCEPT ![s] = outcome]
    /\ sent' = [sent EXCEPT ![s] =
                   IF outcome = "ok" /\ conn[s]
                   THEN Append(@, UpdateEv(Transcript(
                            whisper_calls[s][Len(whisper_calls[s])])))
                   ELSE @]
    /\ pc' = [pc EXCEPT ![s] = "recv"]
    /\ UNCHANGED << client, buffer_size_sec, now, budget, nrecv, last_msg,
                    impl, conn, local, tmp_files, whisper_calls, audio_jobs, httpVars,
                    workerVars >>

\* A text message whose "action" is none of stop, save, discard.
EpIgnore(s, m) ==
    /\ LoopFree
    /\ impl[s] = "endpoint"
    /\ ReadyToReceive(s)
    /\ conn[s]
    /\ m # BadJson
    /\ m.action \notin {"stop", "save", "discard"}
    /\ Take(s, m)
    /\ UNCHANGED << client, buffer_size_sec, now, impl, pc, conn, local,
                    tmp_files, sent, whisper_calls, in_flight, result,
                    audio_jobs, httpVars,
                    workerVars >>

\* json.loads raises on text that is not JSON: `except Exception`, `finally`.
EpBadJson(s) ==
    /\ LoopFree
    /\ impl[s] = "endpoint"
    /\ ReadyToReceive(s)
    /\ conn[s]
    /\ Take(s, BadJson)
    /\ EpClose(s, <<>>)
    /\ UNCHANGED << client, buffer_size_sec, now, impl, conn, local,
                    whisper_calls, in_flight, result, audio_jobs, httpVars,
                    workerVars >>

EpStop(s) ==
    /\ LoopFree
    /\ impl[s] = "endpoint"
    /\ ReadyToReceive(s)
    /\ conn[s]
    /\ Take(s, Control(None, "stop"))
    /\ EpClose(s, << [type |-> "stopped"] >>)
    /\ UNCHANGED << client, buffer_size_sec, now, impl, conn, local,
                    whisper_calls, in_flight, result, audio_jobs, httpVars,
                    workerVars >>

EpDiscard(s) ==
    /\ LoopFree
    /\ impl[s] = "endpoint"
    /\ ReadyToReceive(s)
    /\ conn[s]
    /\ Take(s, Control(None, "discard"))
    /\ EpClose(s, << [type |-> "discarded"] >>)
    /\ UNCHANGED << client, buffer_size_sec, now, impl, conn, local,
                    whisper_calls, in_flight, result, audio_jobs, httpVars,
                    workerVars >>

\* "save": the session file, if it exists, is transcribed by a blocking call.
EpSave(s) ==
    /\ LoopFree
    /\ impl[s] = "endpoint"
    /\ ReadyToReceive(s)
    /\ conn[s]
    /\ Take(s, Control(None, "save"))
    /\ IF Exists(tmp_files, temp_filepath(s))
       THEN /\ pc' = [pc EXCEPT ![s] = "saving"]
            /\ in_flight' = [in_flight EXCEPT ![s] = @ + 1]
            /\ whisper_calls' = [whisper_calls EXCEPT ![s] =
                                    Append(@, tmp_files[temp_filepath(s)])]
            /\ UNCHANGED << sent, tmp_files >>
       ELSE /\ EpClose(s, << CompletedEv(s, <<>>) >>)
            /\ UNCHANGED << in_flight, whisper_calls >>
    /\ UNCHANGED << client, buffer_size_sec, now, impl, conn, local, result,
                    audio_jobs, httpVars,
                    workerVars >>

\* The call returns and "completed" is sent, or it raises and the session
\* ends in `except Exception`.
EpSaveDone(s, outcome) ==
    /\ impl[s] = "endpoint"
    /\ pc[s] = "saving"
    /\ in_flight' = [in_flight EXCEPT ![s] = @ - 1]
    /\ result' = [result EXCEPT ![s] = outcome]
    /\ LET audio == whisper_calls[s][Len(whisper_calls[s])]
       IN  CASE outcome = "ok" ->
                    EpClose(s, << CompletedEv(s, Transcript(audio)) >>)
             [] outcome = "empty" -> EpClose(s, << CompletedEv(s, <<>>) >>)
             [] OTHER -> EpClose(s, <<>>)
    /\ UNCHANGED << client, buffer_size_sec, now, budget, nrecv, last_msg,
                    impl, conn, local, whisper_calls, audio_jobs, httpVars,
                    workerVars >>

\* ------------------------------------------------------------ disconnect
\* receive() yields the disconnect message, which matches no branch; the
\* next receive() raises and the session ends.
ServerSeesDisconnect(s) ==
    /\ LoopFree
    /\ pc[s] = "recv"
    /\ ~conn[s]
    /\ pc' = [pc EXCEPT ![s] = "closed"]
    /\ IF impl[s] = "handler"
       THEN /\ local' = [local EXCEPT ![s] = Locals0(0)]
            /\ UNCHANGED tmp_files
       ELSE /\ tmp_files' = Unlink(tmp_files, temp_filepath(s))
            /\ UNCHANGED local
    /\ UNCHANGED << client, buffer_size_sec, now, budget, nrecv, last_msg,
                    impl, conn, sent, whisper_calls, in_flight, result,
                    audio_jobs, httpVars,
                    workerVars >>

Outcomes == {"ok", "empty", "error"}

NextOf(S) ==
    \/ Tick
    \/ \E s \in S : ClientDisconnect(s)
    \/ \E s \in S, i \in Impls : Connect(s, i)
    \/ \E s \in S, k \in FrameKinds : RecvAudio(s, k)
    \/ \E s \in S, ok \in BOOLEAN : DecodeDone(s, ok)
    \/ \E s \in S, o \in Outcomes : TranscribeDone(s, o)
    \/ \E s \in S, m \in ControlMsgs : HandlerIgnore(s, m)
    \/ \E s \in S : HandlerConfig(s)
    \/ \E s \in S : HandlerStop(s)
    \/ \E s \in S, ok \in BOOLEAN : FinalDecodeDone(s, ok)
    \/ \E s \in S, o \in Outcomes : FinalTranscribeDone(s, o)
    \/ \E s \in S, k \in FrameKinds : EpRecvBytes(s, k)
    \/ \E s \in S, o \in Outcomes : EpTranscribeDone(s, o)
    \/ \E s \in S, m \in ControlMsgs : EpIgnore(s, m)
    \/ \E s \in S : EpBadJson(s)
    \/ \E s \in S : EpStop(s)
    \/ \E s \in S : EpDiscard(s)
    \/ \E s \in S : EpSave(s)
    \/ \E s \in S, o \in Outcomes : EpSaveDone(s, o)
    \/ \E s \in S : ServerSeesDisconnect(s)

\* One live session.
Next == NextOf({"A"})
Spec == Init /\ [][Next]_vars

\* Two concurrent live sessions.
NextPair == NextOf(Sessions)
SpecPair == InitPair /\ [][NextPair]_vars

\* ------------------------------------------------- batch routes: data
\* An instruction object {"instruction": ..., "steps": [...]} with n steps,
\* the idx-th of the extractor's list.
InstructionObj(idx, n) ==
    [ instruction |-> <<"instruction", idx>>,
      steps |-> [j \in 1..n |-> <<"step", idx, j - 1>>] ]

\* Numbers of steps of the instructions of a list: none anywhere, or counts
\* that cycle through 0..MaxSteps from MaxSteps or from 1.
StepProfiles ==
    { [i \in 1..MaxInstructions |-> 0],
      [i \in 1..MaxInstructions |-> (MaxSteps + i - 1) % (MaxSteps + 1)],
      [i \in 1..MaxInstructions |-> i % (MaxSteps + 1)] }

\* instructions_data.get("instructions", []) as the extractor may return it.
Extractions ==
    { [i \in 1..k |-> InstructionObj(i - 1, f[i])] :
        k \in 0..MaxInstructions, f \in StepProfiles }

\* An AudioJob row; created_at defaults to the time the row is built, which
\* is counted here in requests received.
\* A string where the code expects an instruction object.
Str(text) == [str |-> text]
\* isinstance(x, dict), for the items the extractor's answer can hold
IsDict(x) == "instruction" \in DOMAIN x

\* The value json.loads gives for the answer of the extraction backend, by
\* the shape of its "instructions" entry: a list of instruction objects; no
\* such key; a number; null; a string (of 0 or 1 characters); a flat list
\* of instruction strings.  items is what iterating over the entry yields
\* (a string yields its characters; an object would yield its keys, which
\* are also strings).
ExtractorAnswers ==
    { [shape |-> "objects", items |-> d] : d \in Extractions }
      \cup { [shape |-> sh, items |-> <<>>] : sh \in {"missing", "number", "null"} }
      \cup { [shape |-> "string", items |-> [i \in 1..k |-> Str(<<"char", i>>)]] :
                k \in 0..1 }
      \cup { [shape |-> "flat",
              items |-> [i \in 1..k |-> Str(<<"instruction", i - 1>>)]] :
                k \in 1..MaxInstructions }

\* len(x) raises TypeError
HasNoLen(ans) == ans.shape \in {"number", "null"}

JobRow(job_id, transcription, instruction_count, created_at) ==
    [ job_id |-> job_id, transcription |-> transcription,
      instruction_count |-> instruction_count, created_at |-> created_at ]

\* The instruction is stored under the index after its own.
InstructionRowOneBased(job_id, idx, obj) ==
    [ job_id |-> job_id, instruction_index |-> idx + 1,
      instruction_text |-> obj.instruction, steps |-> obj.steps ]

InstructionRow(job_id, idx, obj) ==
    [ job_id |-> job_id, instruction_index |-> idx,
      instruction_text |-> obj.instruction, steps |-> obj.steps ]

\* s3_key and audio_url of generate_tts_audio
S3Key(job_id, idx, step_idx) == <<"tts", job_id, idx, step_idx>>
AudioUrl(s3_key) == <<"https", s3_key>>

\* The chunk is stored under the instruction after its own.
ChunkRowNextInstruction(job_id, idx, step_idx, step_text) ==
    [ job_id |-> job_id, instruction_index |-> idx + 1, step_index |-> step_idx,
      step_text |-> step_text,
      audio_url |-> AudioUrl(S3Key(job_id, idx, step_idx)),
      s3_key |-> S3Key(job_id, idx, step_idx) ]

ChunkRow(job_id, idx, step_idx, step_text) ==
    [ job_id |-> job_id, instruction_index |-> idx, step_index |-> step_idx,
      step_text |-> step_text,
      audio_url |-> AudioUrl(S3Key(job_id, idx, step_idx)),
      s3_key |-> S3Key(job_id, idx, step_idx) ]

\* A table holds a row of the job.
HasJob(tbl, job_id) == \E k \in DOMAIN tbl : tbl[k].job_id = job_id

\* filter_by(job_id=job_id)
FilterByJob(tbl, job_id) ==
    LET Test(row) == row.job_id = job_id IN SelectSeq(tbl, Test)

\* db.query(AudioChunk).filter_by(job_id, instruction_index, step_index)
\* .first(), and `chunk.audio_url if chunk else None`
ChunkAudio(tbl, job_id, idx, step_idx) ==
    LET m == { k \in DOMAIN tbl :
                 /\ tbl[k].job_id = job_id
                 /\ tbl[k].instruction_index = idx
                 /\ tbl[k].step_index = step_idx }
    IN  IF m = {} THEN None
        ELSE tbl[CHOOSE k \in m : \A l \in m : k <= l].audio_url

\* "Format response": instructions_formatted
Formatted(job_id, data, tbl) ==
    [ i \in 1..Len(data) |->
        [ instruction |-> data[i].instruction,
          steps |-> [ j \in 1..Len(data[i].steps) |->
                        [ text |-> data[i].steps[j],
                          audio |-> ChunkAudio(tbl, job_id, i - 1, j - 1) ] ] ] ]

OkReply(r, tbl) ==
    [ op |-> r.kind, status |-> 200, job_id |-> r.job_id,
      transcription |-> r.transcription, instruction_count |-> Len(r.data),
      instructions |-> Formatted(r.job_id, r.data, tbl) ]

\* raise HTTPException(status_code=500, detail=str(e))
ErrorReply(r, detail) == [op |-> r.kind, status |-> 500, detail |-> detail]

\* The job row is left for the final commit, which does not write it.
SaveJobDeferred(tbl, row) == tbl

\* db.add(job); db.commit()
SaveJob(tbl, row) == Append(tbl, row)

RECURSIVE Walk(_)
\* The loops of save_to_database from instruction r.idx, step r.step_idx, up
\* to the next synthesis call ("tts"), to the end of the loops ("commit"),
\* or to an item that is not an object, whose .get raises AttributeError
\* ("raise").  An Instruction row is added to the session when its
\* instruction is entered.
Walk(r) ==
    IF r.idx = Len(r.data)
    THEN [r EXCEPT !.pc = "commit"]
    ELSE IF ~IsDict(r.data[r.idx + 1])
    THEN [r EXCEPT !.pc = "raise"]
    ELSE LET obj == r.data[r.idx + 1]
             r1 == IF r.step_idx = 0
                   THEN [r EXCEPT !.new_instructions =
                            Append(@, InstructionRow(r.job_id, r.idx, obj))]
                   ELSE r
         IN  IF r.step_idx < Len(obj.steps)
             THEN [r1 EXCEPT !.pc = "tts"]
             ELSE Walk([r1 EXCEPT !.idx = @ + 1, !.step_idx = 0])

\* ---------------------------------------------- batch routes: actions
\* The request fails after a Job row for it was committed.
FailAfterJobRow(r, detail) ==
    /\ reply' = ErrorReply(r, detail)
    /\ run' = [r EXCEPT !.pc = "idle", !.new_instructions = <<>>,
                        !.new_chunks = <<>>]
    /\ audio_jobs' = Append(audio_jobs, JobRow(r.job_id, detail, 0, nreq))
    /\ UNCHANGED << instructions, audio_chunks, tmp_files >>

\* An exception reaches the route's `except Exception`: HTTP 500.  The rows
\* added to the session and not committed are dropped with the session.
Fail(r, detail) ==
    /\ reply' = ErrorReply(r, detail)
    /\ run' = [r EXCEPT !.pc = "idle", !.new_instructions = <<>>,
                        !.new_chunks = <<>>]
    /\ UNCHANGED << audio_jobs, instructions, audio_chunks, tmp_files >>

\* The final db.commit() of save_to_database, the removal of the upload's
\* temp file, and the response.
Complete(r) ==
    LET chunks == audio_chunks \o r.new_chunks
    IN  /\ instructions' = instructions \o r.new_instructions
        /\ audio_chunks' = chunks
        /\ tmp_files' = IF r.kind = "analyze_audio"
                        THEN Unlink(tmp_files, r.tmp_path)
                        ELSE tmp_files
        /\ reply' = OkReply(r, chunks)
        /\ run' = [r EXCEPT !.pc = "idle", !.new_instructions = <<>>,
                            !.new_chunks = <<>>]

\* An exception raised inside save_to_database after the Job row was
\* committed reaches the route's `except Exception`: HTTP 500, and the rows
\* added to the session and not committed are dropped with the session.
Raise(r, detail) ==
    /\ reply' = ErrorReply(r, detail)
    /\ run' = [r EXCEPT !.pc = "idle", !.new_instructions = <<>>,
                        !.new_chunks = <<>>]
    /\ UNCHANGED << instructions, audio_chunks, tmp_files >>

\* save_to_database goes on to its next synthesis call or to its end.
Proceed(r) ==
    LET w == Walk(r)
    IN  IF w.pc = "commit"
        THEN Complete(w)
        ELSE IF w.pc = "raise"
        THEN Raise(w, "persistence")
        ELSE /\ run' = w
             /\ UNCHANGED << instructions, audio_chunks, tmp_files, reply >>

\* POST /analyze-audio: the upload is written to a temp file and
\* transcribe_audio is called.
AnalyzeAudio ==
    /\ LoopFree
    /\ run.pc = "idle"
    /\ nreq < MaxRequests
    /\ nreq' = nreq + 1
    /\ LET job_id == <<"job", nreq + 1>>
           tmp_path == <<"upload", nreq + 1>>
       IN  /\ tmp_files' = WriteFile(tmp_files, tmp_path, <<job_id>>)
           /\ run' = [NoRun EXCEPT !.pc = "transcribing",
                                   !.kind = "analyze_audio",
                                   !.job_id = job_id, !.tmp_path = tmp_path]
    /\ UNCHANGED << audio_jobs, instructions, audio_chunks, scan, reply >>
    /\ UNCHANGED << liveVars, workerVars >>

\* transcribe_audio returns the transcript, and detect_instructions is
\* called; or it raises.
TranscribeAudioDone(ok) ==
    /\ run.pc = "transcribing"
    /\ IF ok
       THEN /\ run' = [run EXCEPT !.pc = "extracting",
                                  !.transcription = <<"transcript", run.job_id>>]
            /\ UNCHANGED << audio_jobs, instructions, audio_chunks, tmp_files,
                            reply >>
       ELSE Fail(run, "transcription")
    /\ UNCHANGED << nreq, scan >>
    /\ UNCHANGED << liveVars, workerVars >>

\* POST /process-live-text: the submitted text is the transcription, and the
\* extraction call is made.
ProcessLiveText ==
    /\ LoopFree
    /\ run.pc = "idle"
    /\ nreq < MaxRequests
    /\ nreq' = nreq + 1
    /\ run' = [NoRun EXCEPT !.pc = "extracting", !.kind = "process_live_text",
                            !.job_id = <<"text", nreq + 1>>,
                            !.transcription = <<"text", nreq + 1>>]
    /\ UNCHANGED << audio_jobs, instructions, audio_chunks, tmp_files, scan,
                    reply >>
    /\ UNCHANGED << liveVars, workerVars >>

\* The extraction call returns ans, which detect_instructions hands on as
\* json.loads gives it: save_to_database takes the length of the
\* "instructions" entry (which raises for a value that has none), commits
\* the Job row and runs up to its first synthesis call, or to its end.
ExtractDone(ans) ==
    /\ run.pc = "extracting"
    /\ IF HasNoLen(ans)
       THEN Fail([run EXCEPT !.shape = ans.shape], "persistence")
       ELSE /\ audio_jobs' =
                  SaveJob(audio_jobs,
                          JobRow(run.job_id, run.transcription,
                                 Len(ans.items), nreq))
            /\ Proceed([run EXCEPT !.shape = ans.shape, !.data = ans.items,
                                   !.idx = 0, !.step_idx = 0])
    /\ UNCHANGED << nreq, scan >>
    /\ UNCHANGED << liveVars, workerVars >>

\* The extraction call, or json.loads of its answer, raises.
ExtractFails ==
    /\ run.pc = "extracting"
    /\ Fail(run, "extraction")
    /\ UNCHANGED << nreq, scan >>
    /\ UNCHANGED << liveVars, workerVars >>

\* generate_tts_audio (speech synthesis and upload) returns, the chunk is
\* added to the session and the loops go on; or it raises.
TtsDone(ok) ==
    /\ run.pc = "tts"
    /\ IF ok
       THEN /\ Proceed([run EXCEPT
                    !.new_chunks = Append(@,
                        ChunkRow(run.job_id, run.idx, run.step_idx,
                                 run.data[run.idx + 1].steps[run.step_idx + 1])),
                    !.step_idx = @ + 1])
            /\ UNCHANGED audio_jobs
       ELSE Fail([run EXCEPT !.tts_failures = @ + 1], "tts")
    /\ UNCHANGED << nreq, scan >>
    /\ UNCHANGED << liveVars, workerVars >>

\* ------------------------------------------------------ query routes
Reverse(seq) == [i \in 1..Len(seq) |-> seq[Len(seq) + 1 - i]]
Rotate(seq) == IF seq = <<>> THEN seq ELSE Tail(seq) \o <<Head(seq)>>

\* Orders in which a table scan may yield the rows of a table: the order of
\* insertion, its reverse, and a rotation of it.
ScanOrders(tbl) == {tbl, Reverse(tbl), Rotate(tbl)}

\* Lexicographic order of two tuples of integers of the same length.
LexLess(a, b) ==
    \E k \in 1..Len(a) : a[k] < b[k] /\ \A m \in 1..(k - 1) : a[m] = b[m]

\* The rows are returned as the scan yields them.
unordered(rows, cols) == rows

\* .order_by(cols): the rows ascending by the tuple of the columns cols.
order_by(rows, cols) ==
    LET Key(i) == [c \in 1..Len(cols) |-> rows[i][cols[c]]]
        Pos(i) == 1 + Cardinality({ j \in 1..Len(rows) :
                         \/ LexLess(Key(j), Key(i))
                         \/ (Key(j) = Key(i) /\ j < i) })
    IN  [p \in 1..Len(rows) |-> rows[CHOOSE i \in 1..Len(rows) : Pos(i) = p]]

InstructionOut(row) ==
    [ instruction_index |-> row.instruction_index,
      instruction_text |-> row.instruction_text, steps |-> row.steps ]
ChunkOut(row) ==
    [ instruction_index |-> row.instruction_index,
      step_index |-> row.step_index, step_text |-> row.step_text,
      audio_url |-> row.audio_url, s3_key |-> row.s3_key ]

\* datetime.isoformat(): the timestamp as text.
isoformat(t) == <<"iso", t>>

JobOut(row) ==
    [ job_id |-> row.job_id, transcription |-> row.transcription,
      instruction_count |-> row.instruction_count,
      created_at |-> isoformat(row.created_at) ]

JobIds == { <<k, n>> : k \in {"job", "text"}, n \in 1..MaxRequests }

\* The 404 answer carries the rows of the other tables that have the id.
NotFoundWithRows(job_id, found, chunks) ==
    [ op |-> "get_job_details", status |-> 404, job_id |-> job_id,
      instructions |-> found, audio_chunks |-> chunks ]

\* raise HTTPException(status_code=404, detail="Job not found"), before the
\* other tables are queried.
NotFound(job_id, found, chunks) ==
    [ op |-> "get_job_details", status |-> 404, job_id |-> job_id ]

\* The read leaves the instructions table in another order.
RewritesInstructions ==
    /\ instructions' = Reverse(instructions)
    /\ UNCHANGED << audio_jobs, audio_chunks, tmp_files >>

\* The read routes only query: they add, change and delete nothing.
NoWrites ==
    UNCHANGED << audio_jobs, instructions, audio_chunks, tmp_files >>

\* GET /jobs/{job_id}, with the tables scanned in the orders si and sc.
GetJobDetails(job_id, si, sc) ==
    /\ LoopFree
    /\ run.pc = "idle"
    /\ nreq < MaxRequests
    /\ nreq' = nreq + 1
    /\ LET jobs == FilterByJob(audio_jobs, job_id)
           found == FilterByJob(si, job_id)
           chunks == FilterByJob(sc, job_id)
           insts == order_by(found, <<"instruction_index">>)
           chs == order_by(chunks, <<"instruction_index", "step_index">>)
       IN  IF jobs = <<>>
           THEN /\ reply' = NotFound(job_id, found, chunks)
                /\ scan' = NoScan
           ELSE /\ reply' =
                      [ op |-> "get_job_details", status |-> 200,
                        job_id |-> job_id, job |-> JobOut(Head(jobs)),
                        instructions |->
                            [i \in 1..Len(insts) |-> InstructionOut(insts[i])],
                        audio_chunks |->
                            [i \in 1..Len(chs) |-> ChunkOut(chs[i])] ]
                /\ scan' = [instructions |-> found, audio_chunks |-> chunks]
    /\ NoWrites
    /\ UNCHANGED run
    /\ UNCHANGED << liveVars, workerVars >>

\* The rows ascending by the column col.
order_by_asc(rows, col) == order_by(rows, <<col>>)

\* .order_by(col.desc()): the rows descending by the column col, rows of
\* equal value in the order of the scan.
order_by_desc(rows, col) ==
    LET Pos(i) == 1 + Cardinality({ j \in 1..Len(rows) :
                         \/ rows[j][col] > rows[i][col]
                         \/ (rows[j][col] = rows[i][col] /\ j < i) })
    IN  [p \in 1..Len(rows) |-> rows[CHOOSE i \in 1..Len(rows) : Pos(i) = p]]


\* GET /jobs, with the audio_jobs table scanned in the order sj.
GetAllJobs(sj) ==
    /\ LoopFree
    /\ run.pc = "idle"
    /\ nreq < MaxRequests
    /\ nreq' = nreq + 1
    /\ LET jobs == order_by_desc(sj, "created_at")
       IN  reply' = [ op |-> "get_all_jobs", status |-> 200,
                      jobs |-> [i \in 1..Len(jobs) |-> JobOut(jobs[i])] ]
    /\ scan' = NoScan
    /\ NoWrites
    /\ UNCHANGED run
    /\ UNCHANGED << liveVars, workerVars >>

\* The HTTP routes of backend/main.py, served one request at a time.
NextBatch ==
    \/ AnalyzeAudio
    \/ \E ok \in BOOLEAN : TranscribeAudioDone(ok)
    \/ ProcessLiveText
    \/ \E ans \in ExtractorAnswers : ExtractDone(ans)
    \/ ExtractFails
    \/ \E ok \in BOOLEAN : TtsDone(ok)
    \/ \E j \in JobIds, si \in ScanOrders(instructions),
         sc \in ScanOrders(audio_chunks) : GetJobDetails(j, si, sc)

InitBatch == InitWith(0, {TRUE})
SpecBatch == InitBatch /\ [][NextBatch]_vars

\* ------------------------------------------- the read routes on a store
\* Sequences without repetition of elements of S.
Arrangements(S) ==
    { q \in UNION { [1..k -> S] : k \in 0..Cardinality(S) } :
        \A i, j \in DOMAIN q : i # j => q[i] # q[j] }

StoredJob(n, t) ==
    JobRow(<<"job", n>>, <<"transcript", <<"job", n>>>>, n, t)
StoredInstruction(n, idx) ==
    InstructionRow(<<"job", n>>, idx, InstructionObj(idx, 1))
StoredChunk(n, idx) ==
    ChunkRow(<<"job", n>>, idx, 0, InstructionObj(idx, 1).steps[1])

\* Contents of the audio_jobs table: no job, one, or two jobs of which
\* either may be the newer, or both of one timestamp.
StoredJobs ==
    {<<>>, <<StoredJob(1, 1)>>}
      \cup { <<StoredJob(1, 1), StoredJob(2, t)>> : t \in 0..2 }
      \cup { <<StoredJob(2, t), StoredJob(1, 1)>> : t \in 0..2 }

\* Contents of the instructions and audio_chunks tables.  Their job_id
\* columns are plain strings (no foreign key is declared), so the tables may
\* hold rows of a job id that audio_jobs does not hold.
StoredInstructions ==
    Arrangements({StoredInstruction(1, 0), StoredInstruction(1, 1)})
StoredChunks ==
    Arrangements({StoredChunk(1, 0), StoredChunk(1, 1), StoredChunk(2, 0)})

\* The server starts on a database that already has content.
InitQuery ==
    /\ InitLive(0, {TRUE})
    /\ InitHttp
    /\ audio_jobs \in StoredJobs
    /\ instructions \in StoredInstructions
    /\ audio_chunks \in StoredChunks
    /\ InitCelery({}, {})
    /\ InitApi

NextQuery ==
    \/ \E j \in JobIds, si \in ScanOrders(instructions),
         sc \in ScanOrders(audio_chunks) : GetJobDetails(j, si, sc)
    \/ \E sj \in ScanOrders(audio_jobs) : GetAllJobs(sj)

SpecQuery == InitQuery /\ [][NextQuery]_vars

\* ------------------------------------------------------- deleting a job
\* What deleting the audio_jobs row of job_id does to a table that has a
\* job_id column: the columns of instructions and audio_chunks are declared
\* as plain indexed strings, with no ForeignKey, ondelete or relationship, so
\* nothing.
on_delete(tbl, job_id) == tbl

\* delete_job(id): 404 if audio_jobs does not hold the id; otherwise the Job
\* row is deleted and the deletion is committed.
DeleteJob(job_id) ==
    /\ LoopFree
    /\ run.pc = "idle"
    /\ nreq < MaxRequests
    /\ nreq' = nreq + 1
    /\ IF HasJob(audio_jobs, job_id)
       THEN /\ audio_jobs' = LET Other(row) == row.job_id # job_id
                             IN  SelectSeq(audio_jobs, Other)
            /\ instructions' = on_delete(instructions, job_id)
            /\ audio_chunks' = on_delete(audio_chunks, job_id)
            /\ reply' = [op |-> "delete_job", status |-> 200,
                         job_id |-> job_id]
       ELSE /\ reply' = [op |-> "delete_job", status |-> 404,
                         job_id |-> job_id]
            /\ UNCHANGED << audio_jobs, instructions, audio_chunks >>
    /\ scan' = NoScan
    /\ UNCHANGED << tmp_files, run >>
    /\ UNCHANGED << liveVars, workerVars >>

\* The HTTP routes together with the deletion of jobs.
NextDelete ==
    \/ NextBatch
    \/ \E j \in JobIds : DeleteJob(j)

SpecDelete == InitBatch /\ [][NextDelete]_vars

\* ------------------------------------------- the Celery task and its pool
\* self.request.id
task_id(t) == <<"celery", t>>

\* A work item of POOL.map not yet run.
Pending == [pending |-> TRUE]

\* The dict generate_tts_and_upload returns for instruction i of task t: the
\* URL of the uploaded speech, or audio_url None after an exception.
TtsResult(t, i, ok) ==
    LET s3_key == <<"tts", task_id(t), i>>
    IN  IF ok
        THEN [ instruction |-> task[t].instruction_list[i + 1],
               audio_url |-> AudioUrl(s3_key), s3_key |-> s3_key, index |-> i ]
        ELSE [ instruction |-> task[t].instruction_list[i + 1],
               audio_url |-> None, s3_key |-> None, index |-> i,
               error |-> "tts" ]

\* The worker starts (or starts again) task t: the audio is written to a new
\* temp file and transcribe is called.
ProcessAudio(t) ==
    /\ task[t].pc \in {"queued", "retry"}
    /\ LET temp_path == <<"task", t, task[t].retries>>
       IN  /\ tmp_files' = WriteFile(tmp_files, temp_path, <<task_id(t)>>)
           /\ task' = [task EXCEPT ![t].pc = "transcribing",
                                   ![t].temp_path = temp_path]
    /\ UNCHANGED << pool_queue, pool_running, faults >>
    /\ UNCHANGED << liveVars, audio_jobs, httpVars, apiVars >>

\* The task is scheduled again once more than max_retries allows.
TaskRaisesOnceMore(t) ==
    /\ tmp_files' = Unlink(tmp_files, task[t].temp_path)
    /\ task' = IF task[t].retries < max_retries + 1
               THEN [task EXCEPT ![t].pc = "retry", ![t].retries = @ + 1]
               ELSE [task EXCEPT ![t].pc = "failed"]

\* An exception leaves process_audio: the `finally` removes the temp file,
\* and autoretry_for=(Exception,) schedules the task again until it was
\* retried max_retries times.
TaskRaises(t) ==
    /\ tmp_files' = Unlink(tmp_files, task[t].temp_path)
    /\ task' = IF task[t].retries < max_retries
               THEN [task EXCEPT ![t].pc = "retry", ![t].retries = @ + 1]
               ELSE [task EXCEPT ![t].pc = "failed"]

\* transcribe returns the transcript, or raises.
TaskTranscribed(t, ok) ==
    /\ task[t].pc = "transcribing"
    /\ ok \/ "transcription" \in faults
    /\ IF ok
       THEN /\ task' = [task EXCEPT ![t].pc = "extracting",
                                    ![t].transcription =
                                        <<"transcript", task_id(t)>>]
            /\ UNCHANGED tmp_files
       ELSE TaskRaises(t)
    /\ UNCHANGED << pool_queue, pool_running, faults >>
    /\ UNCHANGED << liveVars, audio_jobs, httpVars, apiVars >>

\* detect_instructions returns a list of n instruction strings (none for an
\* answer without a list), and POOL.map submits one work item per
\* instruction, in order; or detect_instructions raises.
TaskExtracted(t, ok, n) ==
    /\ task[t].pc = "extracting"
    /\ ok \/ "extraction" \in faults
    /\ IF ok
       THEN /\ task' = [task EXCEPT
                           ![t].pc = "mapping",
                           ![t].instruction_list =
                               [i \in 1..n |-> <<"instruction", t, i - 1>>],
                           ![t].tts_results = [i \in 1..n |-> Pending]]
            /\ pool_queue' = pool_queue \o [i \in 1..n |-> <<t, i - 1>>]
            /\ UNCHANGED tmp_files
       ELSE /\ TaskRaises(t)
            /\ UNCHANGED pool_queue
    /\ UNCHANGED << pool_running, faults >>
    /\ UNCHANGED << liveVars, audio_jobs, httpVars, apiVars >>

\* Every submitted work item gets a thread of its own.
PoolStartUnbounded ==
    /\ pool_queue # <<>>
    /\ pool_running' = pool_running \cup {Head(pool_queue)}
    /\ pool_queue' = Tail(pool_queue)
    /\ UNCHANGED << task, faults, tmp_files >>
    /\ UNCHANGED << liveVars, audio_jobs, httpVars, apiVars >>

\* A thread of POOL, of which there are at most max_workers, takes the
\* oldest waiting work item and calls generate_tts_and_upload.
PoolStart ==
    /\ pool_queue # <<>>
    /\ Cardinality(pool_running) < max_workers
    /\ pool_running' = pool_running \cup {Head(pool_queue)}
    /\ pool_queue' = Tail(pool_queue)
    /\ UNCHANGED << task, faults, tmp_files >>
    /\ UNCHANGED << liveVars, audio_jobs, httpVars, apiVars >>

\* The results are yielded in the order in which the calls complete.
CollectAsCompleted(results, i, res) ==
    LET k == CHOOSE j \in DOMAIN results :
                 /\ results[j] = Pending
                 /\ \A l \in 1..(j - 1) : results[l] # Pending
    IN  [results EXCEPT ![k] = res]

\* POOL.map yields the results in the order of its input, whatever the order
\* in which the calls complete: the result of item i is element i of the
\* list.
Collect(results, i, res) == [results EXCEPT ![i + 1] = res]

\* generate_tts_and_upload returns for instruction i of task t, and its
\* thread is free again.
TtsReturns(t, i, ok) ==
    /\ <<t, i>> \in pool_running
    /\ ok \/ "tts" \in faults
    /\ pool_running' = pool_running \ {<<t, i>>}
    /\ task' = [task EXCEPT ![t].tts_results =
                                Collect(@, i, TtsResult(t, i, ok))]
    /\ UNCHANGED << pool_queue, faults, tmp_files >>
    /\ UNCHANGED << liveVars, audio_jobs, httpVars, apiVars >>

\* list(POOL.map(...)) has every result: the task returns its result and the
\* `finally` removes the temp file.
TaskReturns(t) ==
    /\ task[t].pc = "mapping"
    /\ \A i \in DOMAIN task[t].tts_results : task[t].tts_results[i] # Pending
    /\ LET r == task[t].tts_results
       IN  task' = [task EXCEPT
              ![t].pc = "done",
              ![t].result =
                  [ job_id |-> task_id(t),
                    transcription |-> task[t].transcription,
                    instructions |-> task[t].instruction_list,
                    audio_urls |-> [i \in DOMAIN r |-> r[i].audio_url],
                    instruction_count |-> Len(task[t].instruction_list),
                    tts_details |-> r ]]
    /\ tmp_files' = Unlink(tmp_files, task[t].temp_path)
    /\ UNCHANGED << pool_queue, pool_running, faults >>
    /\ UNCHANGED << liveVars, audio_jobs, httpVars, apiVars >>

NextCelery ==
    \/ \E t \in Tasks : ProcessAudio(t)
    \/ \E t \in Tasks, ok \in BOOLEAN : TaskTranscribed(t, ok)
    \/ \E t \in Tasks, ok \in BOOLEAN, n \in 0..MaxList : TaskExtracted(t, ok, n)
    \/ PoolStart
    \/ \E t \in Tasks, i \in 0..(MaxList - 1), ok \in BOOLEAN : TtsReturns(t, i, ok)
    \/ \E t \in Tasks : TaskReturns(t)

\* Two tasks in one worker process, with backends that do not fail.
InitPool ==
    InitLive(0, {TRUE}) /\ InitHttp /\ InitStore /\ InitCelery(Tasks, {})
      /\ InitApi
SpecPool == InitPool /\ [][NextCelery]_vars

\* One task, with backends that may fail in transcription, in extraction and
\* in synthesis or upload.
InitCeleryFaulty ==
    InitLive(0, {TRUE}) /\ InitHttp /\ InitStore
      /\ InitCelery({"A"}, FaultKinds) /\ InitApi
SpecCelery == InitCeleryFaulty /\ [][NextCelery]_vars

\* The worker runs a queued task, every backend call returns or raises (the
\* calls carry timeouts), and a pool thread that has work takes it.
SpecCeleryLive == SpecCelery /\ WF_vars(NextCelery)

\* -------------------------------------------- the app of src/main.py
\* fname of _tts_sync, and the speech the synthesis backend returns for a text
step_fname(idx) == <<"step", idx>>
Speech(text) == <<"speech", text>>

\* An exception leaves analyze_audio, which catches none: HTTP 500.
ApiRaises(c) ==
    api' = [api EXCEPT ![c].pc = "done", ![c].response = [status |-> 500]]

\* The loop over the detected instructions is over: the result is returned.
ApiResult(a) ==
    [a EXCEPT !.pc = "done",
              !.response = [ status |-> 200,
                             transcription |-> a.transcription_text,
                             timeline |-> a.timeline,
                             instruction_count |-> Len(a.timeline) ]]

\* The loop goes on to the synthesis call of instruction a.idx, or ends.
ApiLoop(a) ==
    IF a.idx < Len(a.instructions) THEN [a EXCEPT !.pc = "tts"]
    ELSE ApiResult(a)

\* POST /analyze-audio of caller c: the upload is written to a temp file and
\* the transcription call is handed to THREAD_POOL.
ApiAnalyzeAudio(c) ==
    /\ api[c].pc = "idle"
    /\ LET audio_path == <<"api", c>>
       IN  /\ tmp_files' = WriteFile(tmp_files, audio_path, <<c>>)
           /\ api' = [api EXCEPT ![c].pc = "transcribing",
                                 ![c].audio_path = audio_path]
    /\ UNCHANGED audio_dir
    /\ UNCHANGED << liveVars, audio_jobs, httpVars, celeryVars >>

\* The transcription call returns, and the extraction call is handed to
\* THREAD_POOL; or it raises.
ApiTranscribed(c, ok) ==
    /\ api[c].pc = "transcribing"
    /\ IF ok
       THEN api' = [api EXCEPT ![c].pc = "detecting",
                               ![c].transcription_text = <<"transcript", c>>]
       ELSE ApiRaises(c)
    /\ UNCHANGED << audio_dir, tmp_files >>
    /\ UNCHANGED << liveVars, audio_jobs, httpVars, celeryVars >>

\* The extraction call returns n instructions, and the loop starts; or it
\* raises.
ApiDetected(c, ok, n) ==
    /\ api[c].pc = "detecting"
    /\ IF ok
       THEN api' = [api EXCEPT ![c] =
                ApiLoop([@ EXCEPT !.instructions =
                                     [i \in 1..n |-> <<"instruction", c, i - 1>>],
                                  !.idx = 0])]
       ELSE ApiRaises(c)
    /\ UNCHANGED << audio_dir, tmp_files >>
    /\ UNCHANGED << liveVars, audio_jobs, httpVars, celeryVars >>

\* _tts_sync returns for the instruction idx of caller c: it has written
\* the speech to AUDIO_DIR/step_{idx}.mp3, the timeline gets its entry and
\* the loop goes on; or it raises before writing.
ApiTtsDone(c, ok) ==
    /\ api[c].pc = "tts"
    /\ LET a == api[c]
           text == a.instructions[a.idx + 1]
           audio_file == step_fname(a.idx)
       IN  IF ok
           THEN /\ audio_dir' = WriteFile(audio_dir, audio_file, Speech(text))
                /\ api' = [api EXCEPT ![c] =
                       ApiLoop([@ EXCEPT
                           !.timeline = Append(@, [ instruction |-> text,
                                                    audio |-> audio_file ]),
                           !.idx = @ + 1])]
           ELSE /\ ApiRaises(c)
                /\ UNCHANGED audio_dir
    /\ UNCHANGED tmp_files
    /\ UNCHANGED << liveVars, audio_jobs, httpVars, celeryVars >>

NextApi ==
    \/ \E c \in Callers : ApiAnalyzeAudio(c)
    \/ \E c \in Callers, ok \in BOOLEAN : ApiTranscribed(c, ok)
    \/ \E c \in Callers, ok \in BOOLEAN, n \in 0..MaxInstructions :
          ApiDetected(c, ok, n)
    \/ \E c \in Callers, ok \in BOOLEAN : ApiTtsDone(c, ok)

\* Two callers of the app of src/main.py.
SpecApi == InitBatch /\ [][NextApi]_vars

\* ------------------------------------------------------------ properties
Last(seq) == seq[Len(seq)]
IsHandler(s) == impl[s] = "handler"
IsEndpoint(s) == impl[s] = "endpoint"
StopMsg == Control("stop", None)
ConfigMsg == Control("config", None)

\* C1: in the handler, a step that appends an audio frame to the compressed
\* buffer starts a decode exactly when the buffer now holds at least the
\* minimum-bytes threshold or the maximum wait has elapsed since the last
\* decode; so a buffer below the byte threshold is still decoded once the
\* maximum wait is exceeded.
C1_DecodeReadiness ==
    [][\A s \in Sessions :
          (IsHandler(s) /\ pc[s] = "recv"
             /\ Len(local'[s].webm_buffer) > Len(local[s].webm_buffer))
          => ( pc'[s] = "decoding"
               <=> ( Bytes(local'[s].webm_buffer) >= min_webm_bytes_to_decode
                     \/ now - local[s].last_decode_time >= force_decode_timeout ) )
      ]_vars

\* C1 witness: a decode has been started on a buffer below the byte
\* threshold.
C1_Witness ==
    \E s \in Sessions :
        /\ IsHandler(s)
        /\ pc[s] = "decoding"
        /\ Bytes(local[s].webm_buffer) < min_webm_bytes_to_decode

\* C2: a session never has more than one decode or transcription call in
\* flight, and none is in flight when the session takes its next message.
C2_SingleFlight ==
    \A s \in Sessions :
        /\ in_flight[s] <= 1
        /\ pc[s] = "recv" => in_flight[s] = 0

\* C2 witness: a call is in flight for a frame that is not the session's
\* first, after an earlier call of the session has returned.
C2_Witness ==
    \E s \in Sessions :
        in_flight[s] = 1 /\ nrecv[s] >= 2 /\ result[s] # None

\* The session a piece of audio of session s's implementation came from.
Origin(s, x) == IF IsHandler(s) THEN x[1] ELSE x.s
OwnAudio(s, audio) == \A i \in 1..Len(audio) : Origin(s, audio[i]) = s

\* C3: whatever the interleaving of two sessions' frames, a session's
\* compressed buffer, decoded buffer, session file, transcript history and
\* submitted audio hold only audio of frames sent on its own connection.
C3_Isolation ==
    \A s \in Sessions :
        /\ \A i \in 1..Len(local[s].webm_buffer) :
               local[s].webm_buffer[i].s = s
        /\ \A i \in 1..Len(local[s].pcm_buffer) :
               local[s].pcm_buffer[i][1] = s
        /\ \A i \in 1..Len(local[s].transcription_history) :
               OwnAudio(s, local[s].transcription_history[i])
        /\ (IsEndpoint(s) /\ pc[s] # "closed"
              /\ Exists(tmp_files, temp_filepath(s)))
           => OwnAudio(s, tmp_files[temp_filepath(s)])
        /\ \A i \in 1..Len(whisper_calls[s]) : OwnAudio(s, whisper_calls[s][i])

Holds(s) ==
    \/ local[s].webm_buffer # <<>>
    \/ local[s].pcm_buffer # <<>>
    \/ (IsEndpoint(s) /\ Exists(tmp_files, temp_filepath(s))
          /\ tmp_files[temp_filepath(s)] # <<>>)

\* C3 witness: two open sessions both hold audio at the same time.
C3_Witness ==
    \A s \in Sessions : pc[s] \notin {"idle", "closed"} /\ Holds(s)


\* C4: a handler cycle trims the decoded buffer to the overlap window only
\* when the buffer's content was submitted to the transcription backend in
\* that cycle: the step that ends a cycle (the chunk counter goes up by one)
\* is the return of a transcription call made on the buffer as it stood.
C4_TrimOnlyAfterSubmit ==
    [][\A s \in Sessions :
          (IsHandler(s) /\ local'[s].chunk_id = local[s].chunk_id + 1)
          => /\ pc[s] = "transcribing"
             /\ whisper_calls[s] # <<>>
             /\ Last(whisper_calls[s]) = local[s].pcm_buffer
      ]_vars

C6_FailureKeepsSession ==
    [][\A s \in Sessions :
          (pc[s] \in {"decoding", "transcribing"} /\ pc'[s] # pc[s]
             /\ result'[s] = "error")
          => (pc'[s] = "recv" /\ sent'[s] = sent[s])
      ]_vars

\* C6 witness: after a failed decode the handler accepted a later frame,
\* added it to the bytes it had kept, and started a decode of both.
C6_Witness ==
    \E s \in Sessions :
        /\ IsHandler(s)
        /\ result[s] = "error"
        /\ pc[s] = "decoding"
        /\ Len(local[s].webm_buffer) = 2


SaveMsg == Control(None, "save")
FinalTypes == {"complete", "stopped"}
FinalEvents(s) == {i \in 1..Len(sent[s]) : sent[s][i].type \in FinalTypes}

\* C7: when a stop message ends a handler session that still held audio
\* (and the final decode, if one was made, did not fail), the session ends
\* from a final transcription call made on that audio, and when the call
\* returned text the aggregate sent last is that of the earlier fragments
\* followed by the fragment of the remaining audio.
C7_StopDrains ==
    [][\A s \in Sessions :
          (IsHandler(s) /\ last_msg'[s] = StopMsg /\ conn[s]
             /\ pc[s] # "closed" /\ pc'[s] = "closed"
             /\ (local[s].pcm_buffer # <<>> \/ local[s].webm_buffer # <<>>)
             /\ ~(pc[s] = "final_decoding" /\ result'[s] = "error"))
          => /\ pc[s] = "final_transcribing"
             /\ result'[s] = "ok"
                => Last(sent'[s]) =
                       CompleteEv(Append(local[s].transcription_history,
                                         Transcript(local[s].pcm_buffer)))
      ]_vars

\* C8: once a session whose client is still connected has handled a
\* {"type": "stop"} message, it is closed and exactly one final response
\* event has been sent, as the last event of the session.
C8_StopAnswered ==
    \A s \in Sessions :
        (last_msg[s] = StopMsg /\ conn[s] /\ pc[s] \in {"recv", "closed"})
        => /\ pc[s] = "closed"
           /\ Cardinality(FinalEvents(s)) = 1
           /\ Len(sent[s]) \in FinalEvents(s)

\* C9: once a freshly opened session has handled a {"type": "config"}
\* message as its first message, config_ack is the one event sent so far.
C9_ConfigAcked ==
    \A s \in Sessions :
        (nrecv[s] = 1 /\ last_msg[s] = ConfigMsg /\ conn[s] /\ pc[s] = "recv")
        => sent[s] = << ConfigAck >>

\* C10: once a session whose client is still connected has handled a save
\* message (and the final transcription did not raise), it is closed, its
\* last event is "completed", and the job that event names is in the
\* repository.
C10_SaveFinalizes ==
    \A s \in Sessions :
        (last_msg[s] = SaveMsg /\ conn[s] /\ pc[s] \in {"recv", "closed"}
           /\ result[s] # "error")
        => /\ pc[s] = "closed"
           /\ sent[s] # <<>>
           /\ Last(sent[s]).type = "completed"
           /\ \E i \in DOMAIN audio_jobs :
                  audio_jobs[i].job_id = Last(sent[s]).job_id

\* ------------------------------------------------- scheduling assumptions
\* An external call that was started returns or raises, and the coroutine
\* waiting for it is resumed.
CallReturns ==
    \E s \in {"A"} :
        \/ \E ok \in BOOLEAN : DecodeDone(s, ok) \/ FinalDecodeDone(s, ok)
        \/ \E o \in Outcomes :
              \/ TranscribeDone(s, o)
              \/ FinalTranscribeDone(s, o)
              \/ EpTranscribeDone(s, o)
              \/ EpSaveDone(s, o)

\* The event loop delivers the disconnect to a coroutine waiting in receive().
DisconnectSeen == \E s \in {"A"} : ServerSeesDisconnect(s)

\* One live session on an event loop that keeps running.
SpecLive == Spec /\ WF_vars(CallReturns) /\ WF_vars(DisconnectSeen)

DiscardMsg == Control(None, "discard")
Released(s) ==
    /\ local[s].webm_buffer = <<>>
    /\ local[s].pcm_buffer = <<>>
    /\ local[s].transcription_history = <<>>
    /\ IsEndpoint(s) => ~Exists(tmp_files, temp_filepath(s))

\* C11: once a save message has been handled on an open connection and its
\* final transcription call raised, the session is closed and the last event
\* sent to the client is an error event.
C11_SaveFailureReported ==
    \A s \in Sessions :
        (last_msg[s] = SaveMsg /\ conn[s] /\ result[s] = "error"
           /\ pc[s] \in {"recv", "closed"})
        => /\ pc[s] = "closed"
           /\ sent[s] # <<>>
           /\ Last(sent[s]).type = "error"

C13_InFlightDisconnect ==
    /\ [][\A s \in Sessions :
            (impl[s] # None /\ ~conn[s]) => sent'[s] = sent[s]]_vars
    /\ \A s \in {"A"} :
          (impl[s] # None /\ ~conn[s] /\ in_flight[s] = 1)
             ~> (pc[s] = "closed" /\ Released(s))

\* C13 witness: an endpoint session is closed whose only transcription call,
\* made for an audio frame, returned text that was never delivered: the
\* client had gone while the call was in flight.
C13_Witness ==
    \E s \in Sessions :
        /\ IsEndpoint(s)
        /\ ~conn[s]
        /\ pc[s] = "closed"
        /\ last_msg[s] = AudioMsg
        /\ Len(whisper_calls[s]) = 1
        /\ result[s] = "ok"
        /\ sent[s] = <<>>
        /\ Released(s)

\* C14: while one session is waiting on an external call, the event loop can
\* take the next audio frame of another open session.
C14_LoopNotBlocked ==
    \A s, t \in Sessions :
        (s # t /\ in_flight[s] = 1 /\ pc[t] = "recv" /\ conn[t] /\ budget > 0)
        => ENABLED (\E k \in FrameKinds : RecvAudio(t, k) \/ EpRecvBytes(t, k))

\* ------------------------------------------------- properties: HTTP routes
BatchKinds == {"analyze_audio", "process_live_text"}
NoRowOf(tbl, job_id) == \A k \in DOMAIN tbl : tbl[k].job_id # job_id
\* The number of synthesis calls a list of instructions asks for.
NumSteps(data) ==
    Cardinality({ ij \in (1..Len(data)) \X (1..MaxSteps) :
                    ij[2] <= Len(data[ij[1]].steps) })

\* C15: a batch request (audio upload or text submission) that ends with an
\* error from its transcription or extraction step leaves no Job,
\* Instruction or AudioChunk row of its job id, and changes no table.
C15_AbortLeavesNoRows ==
    [][(run.pc \in {"transcribing", "extracting"} /\ run'.pc = "idle"
          /\ reply'.status # 200
          /\ reply'.detail \in {"transcription", "extraction"})
       => /\ reply'.status = 500
          /\ NoRowOf(audio_jobs', run.job_id)
          /\ NoRowOf(instructions', run.job_id)
          /\ NoRowOf(audio_chunks', run.job_id)
          /\ << audio_jobs', instructions', audio_chunks' >>
                = << audio_jobs, instructions, audio_chunks >>
      ]_vars

\* C15 witness: after a job was persisted, a text submission failed at the
\* extraction step and was answered with HTTP 500.
C15_Witness ==
    /\ run.pc = "idle"
    /\ run.kind = "process_live_text"
    /\ reply.op = "process_live_text"
    /\ reply.status = 500
    /\ reply.detail = "extraction"
    /\ audio_jobs # <<>>

\* C16: whenever a synthesis call of a job is in progress the Job row with
\* the transcript and the instruction count is already committed, and it is
\* still there when the request ends with an error from a synthesis call.
C16_JobBeforeSynthesis ==
    /\ [](run.pc = "tts"
            => \E k \in DOMAIN audio_jobs :
                  audio_jobs[k] = JobRow(run.job_id, run.transcription,
                                         Len(run.data), run.job_id[2]))
    /\ [][(run.pc = "tts" /\ run'.pc = "idle" /\ reply'.status = 500)
            => HasJob(audio_jobs', run.job_id)
         ]_vars

\* C16 witness: a request ended with an error from a synthesis call made
\* after an earlier one of the job had succeeded, and its Job row exists.
C16_Witness ==
    /\ run.pc = "idle"
    /\ reply.op \in BatchKinds
    /\ reply.status = 500
    /\ reply.detail = "tts"
    /\ run.step_idx + run.idx > 0
    /\ HasJob(audio_jobs, run.job_id)

\* C17: when a batch request has finished and exactly one of its synthesis
\* calls had failed, the response reports success and the job has an
\* AudioChunk row for each of its other steps.
C17_PartialFailureTolerated ==
    (run.pc = "idle" /\ run.tts_failures = 1 /\ reply.op \in BatchKinds)
    => /\ reply.status = 200
       /\ Len(FilterByJob(audio_chunks, run.job_id)) >= NumSteps(run.data) - 1

\* C18: the Instruction rows of every persisted job carry, in the order they
\* were stored, the indices 0, 1, ..., N-1 (N the number of the job's rows);
\* and when a batch request succeeds the rows of its job are those of the
\* extractor's list, in the extractor's order.
C18_ContiguousIndices ==
    /\ [](\A k \in DOMAIN audio_jobs :
            LET rows == FilterByJob(instructions, audio_jobs[k].job_id)
            IN  \A i \in 1..Len(rows) : rows[i].instruction_index = i - 1)
    /\ [][(run.pc # "idle" /\ run'.pc = "idle" /\ reply'.status = 200)
            => LET rows == FilterByJob(instructions', run'.job_id)
               IN  /\ Len(rows) = Len(run'.data)
                   /\ \A i \in 1..Len(rows) :
                        /\ rows[i].instruction_index = i - 1
                        /\ rows[i].instruction_text = run'.data[i].instruction
                        /\ rows[i].steps = run'.data[i].steps
         ]_vars

\* C18 witness: a request with the largest instruction list has succeeded
\* after another job with instructions was persisted.
C18_Witness ==
    /\ run.pc = "idle"
    /\ reply.op \in BatchKinds
    /\ reply.status = 200
    /\ Len(run.data) = MaxInstructions
    /\ Len(instructions) > MaxInstructions

\* C19: every AudioChunk row belongs to a Job row and to an Instruction row
\* of the same job and instruction index, and its step index is an index of
\* that instruction's steps.
C19_ChunksReferToInstructions ==
    \A c \in DOMAIN audio_chunks :
        LET ch == audio_chunks[c]
        IN  /\ HasJob(audio_jobs, ch.job_id)
            /\ \E i \in DOMAIN instructions :
                  /\ instructions[i].job_id = ch.job_id
                  /\ instructions[i].instruction_index = ch.instruction_index
                  /\ ch.step_index \in 0..(Len(instructions[i].steps) - 1)

\* C19 witness: chunks of two jobs are stored, one of them for the second
\* step of a second instruction.
C19_Witness ==
    /\ \E c \in DOMAIN audio_chunks :
          audio_chunks[c].instruction_index = 1 /\ audio_chunks[c].step_index = 1
    /\ \E c, d \in DOMAIN audio_chunks :
          audio_chunks[c].job_id # audio_chunks[d].job_id

\* C20: a successful get_job_details response lists the job's Instruction
\* rows ascending by instruction_index and its AudioChunk rows ascending by
\* (instruction_index, step_index), all of them and no others, whatever order
\* the tables were scanned in.
C20_DetailsSorted ==
    (reply.op = "get_job_details" /\ reply.status = 200)
    => LET ins == reply.instructions
           chs == reply.audio_chunks
       IN  /\ \A i, j \in 1..Len(ins) :
                 i < j => ins[i].instruction_index < ins[j].instruction_index
           /\ \A i, j \in 1..Len(chs) :
                 i < j => LexLess(
                     << chs[i].instruction_index, chs[i].step_index >>,
                     << chs[j].instruction_index, chs[j].step_index >>)
           /\ { ins[i] : i \in 1..Len(ins) } =
                 { InstructionOut(r) :
                     r \in { instructions[k] : k \in
                               { k \in DOMAIN instructions :
                                   instructions[k].job_id = reply.job_id } } }
           /\ { chs[i] : i \in 1..Len(chs) } =
                 { ChunkOut(r) :
                     r \in { audio_chunks[k] : k \in
                               { k \in DOMAIN audio_chunks :
                                   audio_chunks[k].job_id = reply.job_id } } }

\* C20 witness: a response was built from scans that yielded three chunks
\* and two instructions of the job out of order.
C20_Witness ==
    /\ reply.op = "get_job_details"
    /\ reply.status = 200
    /\ Len(scan.audio_chunks) = 3
    /\ scan.audio_chunks[1].instruction_index = 1
    /\ Len(scan.instructions) = 2
    /\ scan.instructions[1].instruction_index = 1

\* ------------------------------------------ properties of the read routes
\* C21: a job-detail request for an id that the audio_jobs table does not
\* hold is answered 404 with no instruction and no chunk data, whatever rows
\* of that id the instructions and audio_chunks tables hold.
C21_AbsentJobNotFound ==
    (reply.op = "get_job_details" /\ ~HasJob(audio_jobs, reply.job_id))
    => /\ reply.status = 404
       /\ DOMAIN reply = {"op", "status", "job_id"}

\* C21 witness: a 404 was answered for an id of which both other tables hold
\* a row.
C21_Witness ==
    /\ reply.op = "get_job_details"
    /\ reply.status = 404
    /\ HasJob(instructions, reply.job_id)
    /\ HasJob(audio_chunks, reply.job_id)

\* C22: a job-detail request changes no table and no file, and when the
\* request before it was a job-detail request for the same id its response
\* is the same, whatever the order in which the table scans yield the rows.
C22_DetailsIdempotent ==
    [][(nreq' = nreq + 1 /\ reply'.op = "get_job_details")
       => /\ << audio_jobs', instructions', audio_chunks', tmp_files' >>
                = << audio_jobs, instructions, audio_chunks, tmp_files >>
          /\ (reply.op = "get_job_details" /\ reply.job_id = reply'.job_id)
              => reply' = reply
      ]_vars

\* C22 witness: the second request the server received, for a job with two
\* instructions and two chunks, was answered from scans that yielded the
\* rows out of order.
C22_Witness ==
    /\ nreq = 2
    /\ reply.op = "get_job_details"
    /\ reply.status = 200
    /\ Len(reply.instructions) = 2
    /\ Len(reply.audio_chunks) = 2
    /\ scan.instructions[1].instruction_index = 1
    /\ scan.audio_chunks[1].instruction_index = 1
    /\ instructions[1].instruction_index = 0

\* C23: the job list holds every row of the audio_jobs table once, and no
\* job listed earlier has a creation timestamp before that of a job listed
\* later.
C23_NewestFirst ==
    reply.op = "get_all_jobs"
    => /\ reply.status = 200
       /\ Len(reply.jobs) = Len(audio_jobs)
       /\ { reply.jobs[i] : i \in 1..Len(reply.jobs) }
             = { JobOut(audio_jobs[k]) : k \in DOMAIN audio_jobs }
       /\ \A i, j \in 1..Len(reply.jobs) :
             i < j => reply.jobs[i].created_at[2] >= reply.jobs[j].created_at[2]

\* C23 witness: two jobs were listed, the newer one first, from a table that
\* holds the older one first.
C23_Witness ==
    /\ reply.op = "get_all_jobs"
    /\ Len(reply.jobs) = 2
    /\ reply.jobs[1].created_at[2] > reply.jobs[2].created_at[2]
    /\ audio_jobs[1].created_at < audio_jobs[2].created_at

C25_ShapeDriftYieldsNone ==
    [][(run.pc = "extracting"
          /\ run'.shape \in {"missing", "number", "null", "string"})
       => /\ run'.pc = "idle"
          /\ reply'.status = 200
          /\ reply'.instruction_count = 0
          /\ \E k \in DOMAIN audio_jobs' :
                /\ audio_jobs'[k].job_id = run.job_id
                /\ audio_jobs'[k].instruction_count = 0
          /\ NoRowOf(instructions', run.job_id)
      ]_vars

\* C26: a batch request whose extractor answered with a flat list of N
\* instruction strings ends with a success response, a Job row of
\* instruction count N, N Instruction rows of indices 0..N-1 and N
\* AudioChunk rows, one per instruction, each of step index 0.
C26_FlatListAccepted ==
    [][(run.pc \in {"extracting", "tts"} /\ run'.pc = "idle"
          /\ run'.shape = "flat")
       => LET N == Len(run'.data)
              rows == FilterByJob(instructions', run.job_id)
              chunks == FilterByJob(audio_chunks', run.job_id)
          IN  /\ reply'.status = 200
              /\ \E k \in DOMAIN audio_jobs' :
                    /\ audio_jobs'[k].job_id = run.job_id
                    /\ audio_jobs'[k].instruction_count = N
              /\ Len(rows) = N
              /\ \A i \in 1..N : rows[i].instruction_index = i - 1
              /\ Len(chunks) = N
              /\ \A i \in 1..N : /\ chunks[i].instruction_index = i - 1
                                  /\ chunks[i].step_index = 0
      ]_vars

\* ------------------------------------------- properties: the worker pool
\* C27: however many work items the tasks of a worker process have
\* submitted, at most max_workers synthesis calls are in flight.
C27_PoolBound == Cardinality(pool_running) <= max_workers

\* C27 witness: max_workers synthesis calls are in flight, of both tasks,
\* and more work items are waiting.
C27_Witness ==
    /\ Cardinality(pool_running) = max_workers
    /\ pool_queue # <<>>
    /\ \A t \in Tasks : \E x \in pool_running : x[1] = t

\* ------------------------------------ properties: the app of src/main.py
\* C28: whenever an analyze-audio request of src/main.py has returned its
\* result, the audio file its timeline references for each instruction
\* holds the speech synthesized for that request's own instruction,
\* whatever another request has done before, meanwhile or since.
C28_OwnArtifacts ==
    \A c \in Callers :
        (api[c].pc = "done" /\ api[c].response.status = 200)
        => \A i \in 1..Len(api[c].response.timeline) :
              LET e == api[c].response.timeline[i]
              IN  /\ Exists(audio_dir, e.audio)
                  /\ audio_dir[e.audio] = Speech(api[c].instructions[i])

\* ------------------------------------- properties: the growing session file
IsUpdate(e) == e.type = "transcription_update"
IsPrefix(a, b) == Len(a) <= Len(b) /\ \A i \in 1..Len(a) : a[i] = b[i]

\* C29: in the endpoint, the text of every transcription_update is the
\* transcript of all the audio frames the session has received up to then:
\* one frame per audio message received, the session's own, in arrival
\* order, the newest frame last; and of two updates the earlier text is a
\* proper beginning of the later one.
C29_UpdateIsFullText ==
    /\ [](\A s \in Sessions :
            IsEndpoint(s) =>
              \A i, j \in 1..Len(sent[s]) :
                 (i < j /\ IsUpdate(sent[s][i]) /\ IsUpdate(sent[s][j]))
                 => /\ IsPrefix(sent[s][i].text, sent[s][j].text)
                    /\ Len(sent[s][i].text) < Len(sent[s][j].text))
    /\ [][\A s \in Sessions :
            (IsEndpoint(s) /\ Len(sent'[s]) = Len(sent[s]) + 1
               /\ IsUpdate(Last(sent'[s])))
            => LET text == Last(sent'[s]).text
               IN  /\ text = Transcript(tmp_files[temp_filepath(s)])
                   /\ Len(text) = Len(whisper_calls[s])
                   /\ \A i \in 1..Len(text) : text[i].s = s
                   /\ \A i, j \in 1..Len(text) :
                         i < j => text[i].id < text[j].id
                   /\ Last(text).id = nrecv[s]
       ]_vars

\* C29 witness: a second update was sent, for a session that has received
\* a control message between its audio frames, and its text covers both
\* frames.
C29_Witness ==
    \E s \in Sessions :
        /\ IsEndpoint(s)
        /\ Len(sent[s]) = 2
        /\ IsUpdate(sent[s][1]) /\ IsUpdate(sent[s][2])
        /\ Len(sent[s][2].text) = 2
        /\ nrecv[s] = 3

\* ------------------------------------- properties: commits of the batch job
\* C30: when a synthesis call fails for a step of instruction j, the
\* Instruction row and the AudioChunk rows of every instruction before j are
\* in the tables.
C30_CommitPerInstruction ==
    [][(run.pc = "tts" /\ run'.pc = "idle" /\ reply'.status = 500)
       => \A i \in 0..(run.idx - 1) :
             LET obj == run.data[i + 1]
             IN  /\ \E k \in DOMAIN instructions' :
                       instructions'[k] = InstructionRow(run.job_id, i, obj)
                 /\ \A st \in 0..(Len(obj.steps) - 1) :
                       \E k \in DOMAIN audio_chunks' :
                          audio_chunks'[k] =
                              ChunkRow(run.job_id, i, st, obj.steps[st + 1])
      ]_vars

\* --------------------------------- properties: the handler's events
IsTranscription(e) == e.type = "transcription"
Transcriptions(evs) == SelectSeq(evs, IsTranscription)
NewEvents(s) == SubSeq(sent'[s], Len(sent[s]) + 1, Len(sent'[s]))

\* C31: in the handler every step sends at most one transcription event, and
\* only as the return of the cycle's one transcription call, which ends the
\* handling of the message; for an audio frame the event is the only one
\* sent, not final, and the session is back at receive; for a stop message
\* what is sent is the aggregate alone or one final transcription event
\* followed by the aggregate, and the session is over.  A session has no
\* more transcription events than transcription calls and than messages,
\* and at most one aggregate.
C31_OneResultPerCycle ==
    /\ [](\A s \in Sessions :
            IsHandler(s) =>
              /\ Len(Transcriptions(sent[s])) <= Len(whisper_calls[s])
              /\ Len(Transcriptions(sent[s])) <= nrecv[s]
              /\ Cardinality({ i \in 1..Len(sent[s]) :
                                 sent[s][i].type = "complete" }) <= 1)
    /\ [][\A s \in Sessions :
            IsHandler(s) =>
              LET new == NewEvents(s)
                  nt == Len(Transcriptions(new))
              IN  /\ IsPrefix(sent[s], sent'[s])
                  /\ nt <= 1
                  /\ nt = 1 => /\ pc[s] \in {"transcribing", "final_transcribing"}
                               /\ pc'[s] \in {"recv", "closed"}
                  /\ (nt = 1 /\ last_msg'[s] = AudioMsg)
                     => /\ Len(new) = 1
                        /\ ~new[1].is_final
                        /\ pc'[s] = "recv"
                  /\ (new # <<>> /\ last_msg'[s] = StopMsg)
                     => /\ pc'[s] = "closed"
                        /\ Last(new).type = "complete"
                        /\ Len(new) <= 2
                        /\ Len(new) = 2 => /\ IsTranscription(new[1])
                                           /\ new[1].is_final
       ]_vars

\* C31 witness: a session got a transcription event for an audio frame and,
\* on stop, a final transcription event followed by the aggregate.
C31_Witness ==
    \E s \in Sessions :
        /\ IsHandler(s)
        /\ pc[s] = "closed"
        /\ Len(sent[s]) = 3
        /\ IsTranscription(sent[s][1]) /\ ~sent[s][1].is_final
        /\ IsTranscription(sent[s][2]) /\ sent[s][2].is_final
        /\ sent[s][3].type = "complete"

\* C32: while a handler session is open its chunk counter never decreases,
\* goes up by exactly one at the end of every incremental transcription
\* cycle (with text or without) and at no other step; and the chunk numbers
\* of the session's transcription events, the final one included, are
\* strictly increasing.
C32_ChunkCounter ==
    /\ [](\A s \in Sessions :
            IsHandler(s) =>
              LET evs == Transcriptions(sent[s])
              IN  \A i, j \in 1..Len(evs) : i < j => evs[i].chunk < evs[j].chunk)
    /\ [][\A s \in Sessions :
            (IsHandler(s) /\ pc'[s] # "closed")
            => /\ local'[s].chunk_id \in
                     {local[s].chunk_id, local[s].chunk_id + 1}
               /\ (pc[s] = "transcribing" /\ pc'[s] # "transcribing")
                  => local'[s].chunk_id = local[s].chunk_id + 1
               /\ local'[s].chunk_id = local[s].chunk_id + 1
                  => /\ pc'[s] = "recv"
                     /\ last_msg'[s] = AudioMsg
                     /\ pcm_duration(local'[s].pcm_buffer) <= overlap_sec
       ]_vars

\* C32 witness: after a cycle that returned no text and a cycle that did, a
\* final event was sent with a chunk number above that of the earlier event.
C32_Witness ==
    \E s \in Sessions :
        /\ IsHandler(s)
        /\ Len(Transcriptions(sent[s])) = 2
        /\ Transcriptions(sent[s])[1].chunk >= 1
        /\ Transcriptions(sent[s])[2].is_final

\* C33: the aggregate a handler session sends on stop has as total_chunks
\* the number of transcription events sent in the session, the final one
\* included, and as full_text the join of those events' texts in the order
\* they were sent.
C33_AggregateMatchesEvents ==
    \A s \in Sessions :
        IsHandler(s) =>
          \A i \in 1..Len(sent[s]) :
             sent[s][i].type = "complete"
             => LET evs == Transcriptions(sent[s])
                IN  /\ i = Len(sent[s])
                    /\ sent[s][i].total_chunks = Len(evs)
                    /\ sent[s][i].full_text =
                          Join([k \in 1..Len(evs) |-> evs[k].text])

\* C33 witness: an aggregate of two fragments was sent.
C33_Witness ==
    \E s \in Sessions :
        /\ IsHandler(s)
        /\ sent[s] # <<>>
        /\ Last(sent[s]).type = "complete"
        /\ Last(sent[s]).total_chunks = 2
        /\ Len(Last(sent[s]).full_text) > Len(sent[s][1].text)

\* The handler's decode of an audio frame has failed in this step.
DecodeFailed(s) ==
    /\ IsHandler(s)
    /\ pc[s] = "decoding"
    /\ pc'[s] # "decoding"
    /\ result'[s] = "error"

\* C34: when the decode of an audio frame fails, the handling of the frame
\* leaves the compressed buffer, the decoded buffer and the last-decode time
\* as they were.
C34_FailedDecodeKeepsBuffers ==
    [][\A s \in Sessions :
          DecodeFailed(s)
          => /\ local'[s].webm_buffer = local[s].webm_buffer
             /\ local'[s].pcm_buffer = local[s].pcm_buffer
             /\ local'[s].last_decode_time = local[s].last_decode_time
      ]_vars

\* After a failed decode the buffers are as they were unless the decoded
\* buffer, though shorter than the minimum the backend is called for, was at
\* the trigger duration: then only the decoded buffer and the chunk counter
\* change.
C34_ExceptShortCycle ==
    [][\A s \in Sessions :
          DecodeFailed(s)
          => /\ local'[s].webm_buffer = local[s].webm_buffer
             /\ local'[s].last_decode_time = local[s].last_decode_time
             /\ \/ local'[s].pcm_buffer = local[s].pcm_buffer
                \/ /\ TooShort(local[s].pcm_buffer)
                   /\ pcm_duration(local[s].pcm_buffer) >= buffer_size_sec
      ]_vars

\* C35: in the handler a text message that is not JSON, a control message
\* of a type other than config and stop, and a config message leave the
\* session's buffers, history, chunk counter and position as they were, a
\* config message being answered by config_ack and the others by nothing;
\* and an open session ends only on a stop message or with its client gone.
C35_ControlKeepsSession ==
    [][\A s \in Sessions :
          IsHandler(s) =>
            /\ ( /\ nrecv'[s] = nrecv[s] + 1
                 /\ last_msg'[s] # AudioMsg
                 /\ last_msg'[s] # StopMsg )
               => /\ local'[s] = local[s]
                  /\ pc'[s] = pc[s]
                  /\ pc'[s] = "recv"
                  /\ sent'[s] = IF last_msg'[s] = ConfigMsg
                                THEN Append(sent[s], ConfigAck)
                                ELSE sent[s]
            /\ (pc[s] # "closed" /\ pc'[s] = "closed")
               => (last_msg'[s] = StopMsg \/ ~conn[s])
      ]_vars

\* C35 witness: a session that holds compressed audio has taken a text
\* message that is not JSON and is at receive.
C35_Witness ==
    \E s \in Sessions :
        /\ IsHandler(s)
        /\ last_msg[s] = BadJson
        /\ pc[s] = "recv"
        /\ local[s].webm_buffer # <<>>

\* ------------------------------- properties: the stored counts and files
\* C36: once a batch request whose extraction was a list of instruction
\* objects is over, a synthesis call of it having raised or not, the Job row
\* it stored has as instruction_count the number of Instruction rows stored
\* under its job id.
C36_CountMatchesRows ==
    (run.pc = "idle" /\ run.shape = "objects")
    => \A k \in DOMAIN audio_jobs :
          audio_jobs[k].job_id = run.job_id
          => audio_jobs[k].instruction_count =
                Len(FilterByJob(instructions, run.job_id))

\* ------------------------------------------- properties: the Celery task
FailedCall(t, i) == "error" \in DOMAIN task[t].tts_results[i]

\* C37: the result of a finished task has one audio_urls entry and one
\* tts_details entry per instruction, instruction_count of them; entry i is
\* that of instruction i (its index is i and its text the instruction's), and
\* audio_urls[i] is null exactly when the synthesis call of instruction i
\* failed, in whatever order the calls completed.
C37_ResultsInInstructionOrder ==
    \A t \in Tasks :
        task[t].pc = "done"
        => LET r == task[t].result
               n == Len(task[t].instruction_list)
           IN  /\ r.instruction_count = n
               /\ Len(r.audio_urls) = n
               /\ Len(r.tts_details) = n
               /\ \A i \in 1..n :
                     /\ r.tts_details[i].index = i - 1
                     /\ r.tts_details[i].instruction = task[t].instruction_list[i]
                     /\ r.audio_urls[i] = r.tts_details[i].audio_url
                     /\ (r.audio_urls[i] = None) <=> FailedCall(t, i)
                     /\ ~FailedCall(t, i)
                        => r.audio_urls[i] = AudioUrl(<<"tts", task_id(t), i - 1>>)

\* C37 witness: a finished task with three instructions of which the second
\* failed in synthesis and the others did not.
C37_Witness ==
    /\ task["A"].pc = "done"
    /\ task["A"].result.instruction_count = 3
    /\ task["A"].result.audio_urls[1] # None
    /\ task["A"].result.audio_urls[2] = None
    /\ task["A"].result.audio_urls[3] # None

Attempting == {"transcribing", "extracting"}

\* C38: a task is scheduled again only by a transcription or an extraction
\* that raises, and at most max_retries times, after which such an exception
\* fails it for good; nothing that happens while the synthesis calls run
\* schedules it again or fails it; its result carries the id every attempt
\* had; and the task ends, done or failed.
C38_BoundedRetries ==
    /\ [](\A t \in Tasks :
            /\ task[t].retries <= max_retries
            /\ task[t].pc = "done" => task[t].result.job_id = task_id(t))
    /\ [][\A t \in Tasks :
            /\ task'[t].retries \in {task[t].retries, task[t].retries + 1}
            /\ (task'[t].retries = task[t].retries + 1)
               <=> (task'[t].pc = "retry" /\ task[t].pc # "retry")
            /\ (task'[t].pc = "retry" /\ task[t].pc # "retry")
               => /\ task[t].pc \in Attempting
                  /\ task[t].retries < max_retries
            /\ (task'[t].pc = "failed" /\ task[t].pc # "failed")
               => /\ task[t].pc \in Attempting
                  /\ task[t].retries = max_retries
            /\ task[t].pc = "mapping" => task'[t].pc \in {"mapping", "done"}
       ]_vars
    /\ <>(task["A"].pc \in {"done", "failed"})

\* C38 witness: the task failed for good after max_retries retries, its last
\* attempt having raised in extraction.
C38_Witness ==
    /\ task["A"].pc = "failed"
    /\ task["A"].retries = max_retries
    /\ task["A"].transcription # None

\* C39: when POST /analyze-audio is over, with a response or with an error
\* of transcription, extraction or persistence, the temp file it wrote the
\* upload to is gone.
C39_TempFileDeleted ==
    (run.pc = "idle" /\ run.kind = "analyze_audio")
    => ~Exists(tmp_files, run.tmp_path)

\* The temp file of an attempt of the Celery task is gone when the attempt
\* is over, returned or raised.
TaskTempFileDeleted ==
    \A t \in Tasks :
        task[t].pc \in {"done", "failed", "retry"}
        => ~Exists(tmp_files, task[t].temp_path)

====
